---- MODULE Spec2Model ----
(***************************************************************************)
(* A model of pdinew.py, the Palmer drought index pipeline: the spell      *)
(* tracker _pdsi with its handlers (_compute_X, _between_0s,               *)
(* _wet_spell_abatement, _dry_spell_abatement, _get_PPR_PX3, _assign,      *)
(* _case), the water balance, the CAFEC coefficient estimator, the         *)
(* climatic characteristic, the Z-index, two invocations of the pipeline   *)
(* side by side, and the reshape collaborator.                             *)
(*                                                                         *)
(* Numbers.  A float is modelled as an integer number of thousandths       *)
(* (1.0 is 1000, 0.15 is 150, the percentage 100.0 is 100000); products    *)
(* and quotients are rounded to the nearest thousandth.  Not-a-number and  *)
(* the two infinities are kept as values of their own, with the IEEE       *)
(* rules the code relies on: every comparison with NaN is false, every     *)
(* sum or product with NaN is NaN, x/0 is an infinity.                     *)
(***************************************************************************)
EXTENDS Integers, Sequences, FiniteSets, TLC

VARIABLES
    pc,          \* position of _pdsi: "loop", "flush" or "done"
    j,           \* year index of the month the loop is about to process
    m,           \* calendar month index of that month, 0..11
    X1,          \* carried index of an incipient wet spell
    X2,          \* carried index of an incipient drought
    X3,          \* carried index of the established spell
    V,           \* carried accumulated effective wetness / dryness
    prob_ended,  \* carried probability (percent) that the spell has ended
    K8,          \* number of months waiting in the backtrack arrays
    df,          \* the DataFrame: one column per name, one cell per month
    nchg,        \* input bookkeeping: changes of value in the Z series so far
    last,        \* what the latest month step did (history, read by no step)
    cs,          \* one call of _case: its arguments and its result
    wb,          \* _water_balance: its arguments, its position, SS and SU
    caf,         \* _cafec_coefficients: its arguments, its position, its arrays
    clim,        \* pdsi_from_climatology from the coefficients to the Z-index
    runs,        \* two invocations of pdsi_from_climatology side by side
    rs           \* one call of utils.reshape_to_years_months

pdsiVars == <<pc, j, m, X1, X2, X3, V, prob_ended, K8, df, nchg, last>>
vars == <<pc, j, m, X1, X2, X3, V, prob_ended, K8, df, nchg, last, cs, wb, caf,
          clim, runs, rs>>

-----------------------------------------------------------------------------
(* Bounds of the model *)

\* years of data in the series handed to _pdsi
NumYears == 2
\* the Z series is piecewise constant with at most this many changes of value
MaxChanges == 2

-----------------------------------------------------------------------------
(* Floating point *)

\* one unit of the model is 1/Scale
Scale == 10 * 10 * 10

NaN == 999999999
PInf == 900000000
NInf == 0 - PInf

IsNum(a) == a # NaN /\ a # PInf /\ a # NInf

Abs(n) == IF n < 0 THEN 0 - n ELSE n

\* the largest magnitude the model's floats hold; a result beyond it
\* overflows to an infinity, as a float64 result beyond 1.8e308 does
Huge == 2^29

Range(x) == IF x > Huge THEN PInf ELSE IF x < 0 - Huge THEN NInf ELSE x

\* n/d rounded to the nearest integer, halves away from zero (d # 0)
RDiv(n, d) ==
    LET q == (Abs(n) + (Abs(d) \div 2)) \div Abs(d)
    IN  IF (n >= 0) = (d > 0) THEN q ELSE 0 - q

\* |a| * |b| / Scale rounded to the nearest unit, computed by parts so that
\* no intermediate product leaves the integers the checker computes with
MulMag(a, b) ==
    LET ah == Abs(a) \div Scale
        al == Abs(a) % Scale
        bh == Abs(b) \div Scale
        bl == Abs(b) % Scale
    IN  IF ah # 0 /\ bh > (Huge \div Scale) \div ah
        THEN PInf
        ELSE Range((ah * bh * Scale) + (ah * bl) + (al * bh)
                   + ((al * bl + (Scale \div 2)) \div Scale))

FNeg(a) == IF a = NaN THEN NaN ELSE 0 - a

FAdd(a, b) ==
    IF a = NaN \/ b = NaN THEN NaN
    ELSE IF ~IsNum(a) THEN (IF ~IsNum(b) /\ b # a THEN NaN ELSE a)
    ELSE IF ~IsNum(b) THEN b
    ELSE a + b

FSub(a, b) == FAdd(a, FNeg(b))

FMul(a, b) ==
    IF a = NaN \/ b = NaN THEN NaN
    ELSE IF ~IsNum(a) \/ ~IsNum(b)
         THEN (IF a = 0 \/ b = 0 THEN NaN
               ELSE IF (a > 0) = (b > 0) THEN PInf ELSE NInf)
    ELSE IF (a >= 0) = (b >= 0) THEN MulMag(a, b) ELSE 0 - MulMag(a, b)

\* numpy's float64 division: no exception, x/0 is an infinity and 0/0 is NaN
FDiv(a, b) ==
    IF a = NaN \/ b = NaN THEN NaN
    ELSE IF b = 0 THEN (IF a = 0 THEN NaN ELSE IF a > 0 THEN PInf ELSE NInf)
    ELSE IF ~IsNum(b) THEN (IF ~IsNum(a) THEN NaN ELSE 0)
    ELSE IF ~IsNum(a) THEN (IF (a > 0) = (b > 0) THEN PInf ELSE NInf)
    ELSE Range(RDiv(a * Scale, b))

FAbs(a) == IF a = NaN THEN NaN ELSE Abs(a)

\* comparisons: false as soon as one side is NaN
FEq(a, b) == a # NaN /\ b # NaN /\ a = b
FLt(a, b) == a # NaN /\ b # NaN /\ a < b
FLe(a, b) == a # NaN /\ b # NaN /\ a <= b
FGt(a, b) == FLt(b, a)
FGe(a, b) == FLe(b, a)

\* Python's built-in max(a, b) and min(a, b): the first argument is kept
\* unless the second compares greater (smaller), so a NaN first argument stays
PyMax(a, b) == IF FGt(b, a) THEN b ELSE a
PyMin(a, b) == IF FLt(b, a) THEN b ELSE a

-----------------------------------------------------------------------------
(* The series *)

MonthsPerYear == 12
NMonths == NumYears * MonthsPerYear
Months == 0 .. (NMonths - 1)

\* the Z values the model feeds to _pdsi, in thousandths
ZVals == {0 - 3000, 0 - 150, 0, 1000, 3000}

FloatColumns ==
    {"PPR", "PDSI", "PHDI", "WPLM", "SX", "SX1", "SX2", "SX3",
     "X", "PX1", "PX2", "PX3", "Z"}
IndexColumns == {"index_j", "index_m"}

\* df.<col>[ix] = val
Put(d, col, ix, val) == [d EXCEPT ![col][ix] = val]

\* the 1-D series index of year index jj and month index mm
SeriesIndex(jj, mm) == (jj * MonthsPerYear) + mm


-----------------------------------------------------------------------------
(* _case: the WPLM selection *)

\* (mutant of _case: the established spell is blended with the incipient
\* spell of its own sign, X1 for a wet spell and X2 for a drought)
_case_SameSign(PROB, cX1, cX2, cX3) ==
    IF FEq(cX3, 0)
    THEN IF FGt(FAbs(cX2), FAbs(cX1)) THEN cX2 ELSE cX1
    ELSE IF FGt(PROB, 0) /\ FLt(PROB, 100000)
    THEN LET probability == FDiv(PROB, 100000)
         IN  IF FGt(cX3, 0)
             THEN FAdd(FMul(FSub(1000, probability), cX3), FMul(probability, cX1))
             ELSE FAdd(FMul(FSub(1000, probability), cX3), FMul(probability, cX2))
    ELSE cX3

_case(PROB, cX1, cX2, cX3) ==
    IF FEq(cX3, 0)
    THEN (IF FGt(FAbs(cX2), FAbs(cX1)) THEN cX2 ELSE cX1)
    ELSE IF FGt(PROB, 0) /\ FLt(PROB, 100000)
         THEN LET probability == FDiv(PROB, 100000)
              IN  IF FGt(cX3, 0)
                  THEN FAdd(FMul(FSub(1000, probability), cX3), FMul(probability, cX2))
                  ELSE FAdd(FMul(FSub(1000, probability), cX3), FMul(probability, cX1))
         ELSE cX3

\* df.<to>[ix] = df.<from>[ix]
CopyCell(d, to, from, ix) == Put(d, to, ix, d[from][ix])

\* (mutant of WritePHDI: PHDI is x whatever the month's PX3 is)
WritePHDI_AlwaysX(d, ix, x) == Put(d, "PHDI", ix, x)

\* PHDI of month ix: the month's PX3, or x when that PX3 is 0
WritePHDI(d, ix, x) ==
    Put(d, "PHDI", ix, IF FEq(d.PX3[ix], 0) THEN x ELSE d.PX3[ix])

\* WPLM of month ix: _case of the month's PPR, PX1, PX2 and PX3
WriteWPLM(d, ix) ==
    Put(d, "WPLM", ix, _case(d.PPR[ix], d.PX1[ix], d.PX2[ix], d.PX3[ix]))

\* (mutant of SetIndices: the rule "PHDI is X when PX3 is 0" is left out)
SetIndices_NoZeroRule(d, ix, x) ==
    WriteWPLM(CopyCell(Put(d, "PDSI", ix, x), "PHDI", "PX3", ix), ix)

\* the three writes that give month ix its indices: PDSI is x, PHDI is the
\* month's PX3 unless that is 0 (then x), WPLM is _case of the month's values
SetIndices(d, ix, x) ==
    WriteWPLM(WritePHDI(Put(d, "PDSI", ix, x), ix, x), ix)

-----------------------------------------------------------------------------
(* _assign *)

\* the loop over Mm = K8-1 .. 0 for iass 1 or 2: SX[Mm] is the stored X1 (X2)
\* until a stored value is 0, then ISAVE flips to the other series
RECURSIVE BacktrackWalk(_, _, _)
BacktrackWalk(d, Mm, ISAVE) ==
    IF Mm < 0 THEN d
    ELSE IF ISAVE = 1
         THEN (IF FEq(d.SX1[Mm], 0)
               THEN BacktrackWalk(CopyCell(d, "SX", "SX2", Mm), Mm - 1, 2)
               ELSE BacktrackWalk(CopyCell(d, "SX", "SX1", Mm), Mm - 1, 1))
    ELSE IF ISAVE = 2
         THEN (IF FEq(d.SX2[Mm], 0)
               THEN BacktrackWalk(CopyCell(d, "SX", "SX1", Mm), Mm - 1, 1)
               ELSE BacktrackWalk(CopyCell(d, "SX", "SX2", Mm), Mm - 1, 2))
    ELSE BacktrackWalk(d, Mm - 1, ISAVE)

\* for iass 3: SX[Mm] = SX3[Mm] for Mm in range(K8)
UseAllX3(d, k) ==
    [d EXCEPT !.SX = [n \in DOMAIN d.SX |-> IF n < k THEN d.SX3[n] ELSE d.SX[n]]]

\* the loop over n = 0 .. K8: the month at backtrack position n gets SX[n]
RECURSIVE AssignLoop(_, _, _)
AssignLoop(d, n, k) ==
    IF n > k THEN d
    ELSE AssignLoop(SetIndices(d, SeriesIndex(d.index_j[n], d.index_m[n]), d.SX[n]),
                    n + 1, k)

\* _assign once SX[K8] holds the month's X
AssignStored(d, iass, k, i) ==
    IF k = 0
    THEN SetIndices(d, i, d.X[i])
    ELSE AssignLoop(IF iass = 3 THEN UseAllX3(d, k) ELSE BacktrackWalk(d, k - 1, iass),
                    0, k)

_assign(d, iass, k, jj, mm) ==
    AssignStored(Put(d, "SX", k, d.X[SeriesIndex(jj, mm)]), iass, k, SeriesIndex(jj, mm))

-----------------------------------------------------------------------------
(* The handlers.  Each returns what the Python function returns: the      *)
(* DataFrame and the values carried to the next month.                     *)

Carry(d, cX1, cX2, cX3, cV, cprob, k) ==
    [df |-> d, X1 |-> cX1, X2 |-> cX2, X3 |-> cX3, V |-> cV,
     prob_ended |-> cprob, K8 |-> k]

\* the values saved for the next month: X1, X2, X3 and prob_ended are read
\* from the month's PX1, PX2, PX3 and PPR
CarryFrom(d, i, cV, k) ==
    Carry(d, d.PX1[i], d.PX2[i], d.PX3[i], cV, d.PPR[i], k)

\* 0.897 * x + Z[i] / 3.0
Recurrence(x, z) == FAdd(FMul(897, x), FDiv(z, 3000))

\* (mutant of ResetFirstIndex: position 0 is left as the top of the loop
\* wrote it)
ResetFirstIndex_Never(d, k, jj, mm) == d

\* with an empty buffer the month's (j, m) is written at position 0 again
ResetFirstIndex(d, k, jj, mm) ==
    IF k = 0 THEN Put(Put(d, "index_j", k, jj), "index_m", k, mm) ELSE d

\* (mutant of StoreDeferred: the month's X is not set)
StoreDeferred_NoX(d, k, i) ==
    Put(Put(Put(d, "SX1", k, d.PX1[i]), "SX2", k, d.PX2[i]), "SX3", k, d.PX3[i])

\* the month's PX1, PX2 and PX3 are stored at position K8, and its X is PX3
StoreDeferred(d, k, i) ==
    CopyCell(Put(Put(Put(d, "SX1", k, d.PX1[i]), "SX2", k, d.PX2[i]),
                 "SX3", k, d.PX3[i]),
             "X", "PX3", i)

\* the end of _compute_X: nothing conclusive, the month joins the backtrack
\* arrays at position K8 and K8 grows by one
Defer(d, k, jj, mm, PV) ==
    CarryFrom(StoreDeferred(ResetFirstIndex(d, k, jj, mm), k, SeriesIndex(jj, mm)),
              SeriesIndex(jj, mm), PV, k + 1)

\* "GOTO 220" after an _assign inside _compute_X
Assigned(d, iass, k, jj, mm, PV) ==
    CarryFrom(_assign(d, iass, k, jj, mm), SeriesIndex(jj, mm), PV, 0)

\* (mutant of ComputeXTail: a month is assigned only when exactly one of PX1
\* and PX2 is nonzero, so a month with both 0 is deferred)
ComputeXTail_ExactlyOne(d, k, jj, mm, PV) ==
    LET i == SeriesIndex(jj, mm)
    IN  IF FEq(d.PX3[i], 0) /\ FEq(d.PX1[i], 0) /\ ~FEq(d.PX2[i], 0)
        THEN Assigned(CopyCell(d, "X", "PX2", i), 2, k, jj, mm, PV)
        ELSE IF FEq(d.PX3[i], 0) /\ FEq(d.PX2[i], 0) /\ ~FEq(d.PX1[i], 0)
        THEN Assigned(CopyCell(d, "X", "PX1", i), 1, k, jj, mm, PV)
        ELSE Defer(d, k, jj, mm, PV)

\* _compute_X after X1 and X2 established no spell: with PX3 = 0 the month
\* takes PX2 as its X when PX1 is 0, else PX1 when PX2 is 0; else it is deferred
ComputeXTail(d, k, jj, mm, PV) ==
    LET i == SeriesIndex(jj, mm)
    IN  IF FEq(d.PX3[i], 0) /\ FEq(d.PX1[i], 0)
        THEN Assigned(CopyCell(d, "X", "PX2", i), 2, k, jj, mm, PV)
        ELSE IF FEq(d.PX3[i], 0) /\ FEq(d.PX2[i], 0)
        THEN Assigned(CopyCell(d, "X", "PX1", i), 1, k, jj, mm, PV)
        ELSE Defer(d, k, jj, mm, PV)

\* (mutant of Establish: the incipient index is not set back to 0)
Establish_KeepIncipient(d, col, i) ==
    CopyCell(CopyCell(d, "X", col, i), "PX3", col, i)

\* the incipient index <col> becomes the new X3: X and PX3 take its value
\* and the incipient index itself is set to 0
Establish(d, col, i) ==
    Put(CopyCell(CopyCell(d, "X", col, i), "PX3", col, i), col, i, 0)

\* _compute_X from the computation of PX2 on
FromPX2(d, jj, mm, k, PV) ==
    LET i == SeriesIndex(jj, mm)
    IN  IF FLe(d.PX2[i], 0 - 1000) /\ FEq(d.PX3[i], 0)
        THEN Assigned(Establish(d, "PX2", i), 2, k, jj, mm, PV)
        ELSE ComputeXTail(d, k, jj, mm, PV)

\* _compute_X once PX1 of the month is computed: a wet spell is established
\* and the function returns, PX2 of the month not computed; or PX2 is computed
FromPX1(d, cX2, jj, mm, k, PV) ==
    LET i == SeriesIndex(jj, mm)
    IN  IF FGe(d.PX1[i], 1000) /\ FEq(d.PX3[i], 0)
        THEN Assigned(Establish(d, "PX1", i), 1, k, jj, mm, PV)
        ELSE FromPX2(Put(d, "PX2", i, PyMin(Recurrence(cX2, d.Z[i]), 0)),
                     jj, mm, k, PV)

_compute_X(d, cX1, cX2, jj, mm, k, PV) ==
    FromPX1(Put(d, "PX1", SeriesIndex(jj, mm),
                PyMax(Recurrence(cX1, d.Z[SeriesIndex(jj, mm)]), 0)),
            cX2, jj, mm, k, PV)

\* _between_0s up to the month's X: PPR, PX1 and PX2 are 0, PX3 follows the
\* recurrence from X3 and X is PX3
ConsolidateX3(d, cX3, i) ==
    CopyCell(Put(Put(Put(Put(d, "PPR", i, 0), "PX1", i, 0), "PX2", i, 0),
                 "PX3", i, Recurrence(cX3, d.Z[i])),
             "X", "PX3", i)

\* _between_0s from the test of K8 on
Consolidated(d, k, jj, mm) ==
    LET i == SeriesIndex(jj, mm)
    IN  CarryFrom(IF k = 0 THEN SetIndices(d, i, d.X[i]) ELSE _assign(d, 3, k, jj, mm),
                  i, 0, 0)

_between_0s(d, k, cX3, jj, mm) ==
    Consolidated(ConsolidateX3(d, cX3, SeriesIndex(jj, mm)), k, jj, mm)

\* (mutant of Q_of: Q is Ze + V also when prob_ended is 100)
Q_of_AlwaysSum(cprob, Ze, cV) == FAdd(Ze, cV)

\* the denominator of eq. 30
Q_of(cprob, Ze, cV) == IF FEq(cprob, 100000) THEN Ze ELSE FAdd(Ze, cV)

\* _get_PPR_PX3 once (PV / Q) * 100.0 is computed
WithPPR(d, ppr, ix, cX3) ==
    IF FGe(ppr, 100000)
    THEN Put(Put(d, "PPR", ix, 100000), "PX3", ix, 0)
    ELSE Put(Put(d, "PPR", ix, ppr), "PX3", ix, Recurrence(cX3, d.Z[ix]))

_get_PPR_PX3(d, cprob, Ze, cV, PV, ix, cX3) ==
    WithPPR(d, FMul(FDiv(PV, Q_of(cprob, Ze, cV)), 100000), ix, cX3)

\* _compute_X on what _between_0s returned
ComputeXAfter(r, jj, mm, PV) == _compute_X(r.df, r.X1, r.X2, jj, mm, r.K8, PV)

\* (mutant of WetPV: the carried V is added when it is positive)
WetPV_MaxV(z, cV) == FAdd(FSub(z, 150), PyMax(cV, 0))

\* PV of a wet-spell abatement month
WetPV(z, cV) == FAdd(FSub(z, 150), PyMin(cV, 0))

\* _wet_spell_abatement once PV is computed
WetAbatement(d, PV, cV, k, cprob, jj, mm, cX1, cX2, cX3) ==
    IF FGe(PV, 0)
    THEN ComputeXAfter(_between_0s(d, k, cX3, jj, mm), jj, mm, PV)
    ELSE _compute_X(_get_PPR_PX3(d, cprob, FAdd(FMul(0 - 2691, cX3), 1500), cV, PV,
                                 SeriesIndex(jj, mm), cX3),
                    cX1, cX2, jj, mm, k, PV)

_wet_spell_abatement(d, cV, k, cprob, jj, mm, cX1, cX2, cX3) ==
    WetAbatement(d, WetPV(d.Z[SeriesIndex(jj, mm)], cV), cV, k, cprob, jj, mm,
                 cX1, cX2, cX3)

\* PV of a drought abatement month
DryPV(z, cV) == FAdd(FAdd(z, 150), PyMax(cV, 0))

\* _dry_spell_abatement once PV is computed
DryAbatement(d, PV, k, jj, mm, cV, cX1, cX2, cX3, cprob) ==
    IF FLe(PV, 0)
    THEN ComputeXAfter(_between_0s(d, k, cX3, jj, mm), jj, mm, PV)
    ELSE _compute_X(_get_PPR_PX3(d, cprob, FSub(FMul(0 - 2691, cX3), 1500), cV, PV,
                                 SeriesIndex(jj, mm), cX3),
                    cX1, cX2, jj, mm, k, PV)

_dry_spell_abatement(d, k, jj, mm, cV, cX1, cX2, cX3, cprob) ==
    DryAbatement(d, DryPV(d.Z[SeriesIndex(jj, mm)], cV), k, jj, mm, cV,
                 cX1, cX2, cX3, cprob)

-----------------------------------------------------------------------------
(* _pdsi *)

\* the DataFrame as _pdsi builds it: float columns full of NaN, the two index
\* columns full of 0.  The Z column is the input; the model fixes each month's
\* Z when the loop reaches that month, which no step can tell from a column
\* filled beforehand because month i is the only cell of Z a step reads.
InitDf ==
    [c \in FloatColumns \cup IndexColumns |->
        [n \in Months |-> IF c \in IndexColumns THEN 0 ELSE NaN]]

NoStep == [h |-> "none", i |-> 0 - 1, K8in |-> 0, X1in |-> 0, X2in |-> 0,
           X3in |-> 0, Vin |-> 0, probin |-> 0]

PdsiInit ==
    /\ pc = "loop"
    /\ j = 0
    /\ m = 0
    /\ X1 = 0
    /\ X2 = 0
    /\ X3 = 0
    /\ V = 0
    /\ prob_ended = 0
    /\ K8 = 0
    /\ df = InitDf
    /\ nchg = 0
    /\ last = NoStep
    /\ cs = "idle"
    /\ wb = "idle"
    /\ caf = "idle"
    /\ clim = "idle"
    /\ runs = "idle"
    /\ rs = "idle"

\* The inputs.  A Z series is piecewise constant and belongs to one of two
\* families.  The ordinary series take their values in ZVals and change value
\* at most MaxChanges times; NaN marks a month that reshape_to_years_months
\* padded: only months after the first of the final year are padded, and
\* every month after a padded month is padded.  The series with an extreme
\* month take their values in ExtremeZVals and change value at most
\* ExtremeChanges times, all within their first ExtremeMonths months.
ExtremeZVals == {0, 3000, 9370}
ExtremeChanges == 3
ExtremeMonths == 4

\* every Z of the months processed so far is in vals
SoFarIn(vals) == \A n \in Months : n < SeriesIndex(j, m) => df.Z[n] \in vals

OrdinarySeries(z, i, prev) ==
    /\ z \in ZVals \cup {NaN}
    /\ SoFarIn(ZVals \cup {NaN})
    /\ (z = NaN) => (j = NumYears - 1 /\ m >= 1)
    /\ (i > 0 /\ prev = NaN) => (z = NaN)
    /\ (i > 0 /\ z # prev) => (nchg < MaxChanges)

ExtremeSeries(z, i, prev) ==
    /\ z \in ExtremeZVals
    /\ SoFarIn(ExtremeZVals)
    /\ (i > 0 /\ z # prev) => (nchg < ExtremeChanges /\ i < ExtremeMonths)

\* the Z values month (j, m) may have
ZChoices ==
    LET i    == SeriesIndex(j, m)
        prev == IF i = 0 THEN NaN ELSE df.Z[i - 1]
    IN  {z \in ZVals \cup ExtremeZVals \cup {NaN} :
            OrdinarySeries(z, i, prev) \/ ExtremeSeries(z, i, prev)}

\* the top of the loop body: Z[i] is the month's input, and the month's
\* (j, m) is written at position K8 of the index columns
LoopTop(z) ==
    LET i == SeriesIndex(j, m)
    IN  Put(Put(Put(df, "Z", i, z), "index_j", K8, j), "index_m", K8, m)

\* the state after a handler returned r for month (j, m) with input z
Returned(r, z, h) ==
    LET i == SeriesIndex(j, m)
    IN  /\ df' = r.df
        /\ X1' = r.X1
        /\ X2' = r.X2
        /\ X3' = r.X3
        /\ V' = r.V
        /\ prob_ended' = r.prob_ended
        /\ K8' = r.K8
        /\ nchg' = IF i > 0 /\ z # df.Z[i - 1] THEN nchg + 1 ELSE nchg
        /\ last' = [h |-> h, i |-> i, K8in |-> K8, X1in |-> X1, X2in |-> X2,
                    X3in |-> X3, Vin |-> V, probin |-> prob_ended]
        /\ m' = IF m = MonthsPerYear - 1 THEN 0 ELSE m + 1
        /\ j' = IF m = MonthsPerYear - 1 THEN j + 1 ELSE j
        /\ pc' = IF i = NMonths - 1 THEN "flush" ELSE "loop"
        /\ UNCHANGED <<cs, wb, caf, clim, runs, rs>>

\* (mutant of NoAbatement: a prob_ended of 100 counts as abatement underway)
NoAbatement_ZeroOnly == FEq(prob_ended, 0)

\* prob_ended == 100.0 or prob_ended == 0.0
NoAbatement == FEq(prob_ended, 100000) \/ FEq(prob_ended, 0)

\* no abatement underway and abs(X3) <= 0.5: PPR and PX3 of the month are 0,
\* then _compute_X with PV = 0
NearNormal ==
    /\ pc = "loop"
    /\ NoAbatement
    /\ FLe(FAbs(X3), 500)
    /\ \E z \in ZChoices :
          Returned(_compute_X(Put(Put(LoopTop(z), "PPR", SeriesIndex(j, m), 0),
                                  "PX3", SeriesIndex(j, m), 0),
                              X1, X2, j, m, K8, 0), z, "NearNormal")

\* no abatement underway, X3 > 0.5 and Z >= 0.15: the wet spell intensifies
WetIntensifies ==
    /\ pc = "loop"
    /\ NoAbatement
    /\ ~FLe(FAbs(X3), 500)
    /\ FGt(X3, 500)
    /\ \E z \in ZChoices :
          /\ FGe(z, 150)
          /\ Returned(_between_0s(LoopTop(z), K8, X3, j, m), z, "WetIntensifies")

\* no abatement underway, X3 > 0.5 and not Z >= 0.15: the wet spell starts to abate
WetAbates ==
    /\ pc = "loop"
    /\ NoAbatement
    /\ ~FLe(FAbs(X3), 500)
    /\ FGt(X3, 500)
    /\ \E z \in ZChoices :
          /\ ~FGe(z, 150)
          /\ Returned(_wet_spell_abatement(LoopTop(z), V, K8, prob_ended, j, m,
                                           X1, X2, X3), z, "WetAbates")

\* no abatement underway, X3 < -0.5 and Z < -0.15: the drought intensifies
DroughtIntensifies ==
    /\ pc = "loop"
    /\ NoAbatement
    /\ ~FLe(FAbs(X3), 500)
    /\ ~FGt(X3, 500)
    /\ FLt(X3, 0 - 500)
    /\ \E z \in ZChoices :
          /\ FLt(z, 0 - 150)
          /\ Returned(_between_0s(LoopTop(z), K8, X3, j, m), z, "DroughtIntensifies")

\* no abatement underway, X3 < -0.5 and not Z < -0.15: the drought starts to abate
DroughtAbates ==
    /\ pc = "loop"
    /\ NoAbatement
    /\ ~FLe(FAbs(X3), 500)
    /\ ~FGt(X3, 500)
    /\ FLt(X3, 0 - 500)
    /\ \E z \in ZChoices :
          /\ ~FLt(z, 0 - 150)
          /\ Returned(_dry_spell_abatement(LoopTop(z), K8, j, m, V, X1, X2, X3,
                                           prob_ended), z, "DroughtAbates")

\* abatement underway and X3 > 0
WetAbatementGoesOn ==
    /\ pc = "loop"
    /\ ~NoAbatement
    /\ FGt(X3, 0)
    /\ \E z \in ZChoices :
          Returned(_wet_spell_abatement(LoopTop(z), V, K8, prob_ended, j, m,
                                        X1, X2, X3), z, "WetAbatementGoesOn")

\* abatement underway and not X3 > 0
DroughtAbatementGoesOn ==
    /\ pc = "loop"
    /\ ~NoAbatement
    /\ ~FGt(X3, 0)
    /\ \E z \in ZChoices :
          Returned(_dry_spell_abatement(LoopTop(z), K8, j, m, V, X1, X2, X3,
                                        prob_ended), z, "DroughtAbatementGoesOn")

\* the months still in the backtrack arrays after the last month
RECURSIVE ClearRemaining(_, _, _)
ClearRemaining(d, x, k) ==
    IF x >= k THEN d
    ELSE ClearRemaining(SetIndices(d, SeriesIndex(d.index_j[x], d.index_m[x]),
                                   d.X[SeriesIndex(d.index_j[x], d.index_m[x])]),
                        x + 1, k)

\* (mutant of TerminalFlush: the loop stops one position early, as
\* range(0, K8 - 1) would)
TerminalFlush_StopsEarly ==
    /\ pc = "flush"
    /\ df' = ClearRemaining(df, 0, K8 - 1)
    /\ pc' = "done"
    /\ UNCHANGED <<j, m, X1, X2, X3, V, prob_ended, K8, nchg, last, cs, wb, caf, clim, runs, rs>>

\* the loop after the last month, and the return
TerminalFlush ==
    /\ pc = "flush"
    /\ df' = ClearRemaining(df, 0, K8)
    /\ pc' = "done"
    /\ UNCHANGED <<j, m, X1, X2, X3, V, prob_ended, K8, nchg, last, cs, wb, caf, clim, runs, rs>>

PdsiNext ==
    \/ NearNormal
    \/ WetIntensifies
    \/ WetAbates
    \/ DroughtIntensifies
    \/ DroughtAbates
    \/ WetAbatementGoesOn
    \/ DroughtAbatementGoesOn
    \/ TerminalFlush

Spec == PdsiInit /\ [][PdsiNext]_vars

-----------------------------------------------------------------------------
(* Properties of _pdsi *)

\* the months the loop has processed so far
Processed == {n \in Months : n <= last.i}

Available(n) == df.Z[n] # NaN

AllAvailable == \A n \in Months : Available(n)

Defined(n) == IsNum(df.PDSI[n]) /\ IsNum(df.PHDI[n]) /\ IsNum(df.WPLM[n])

\* C1 (as claimed): when _pdsi returns for a series whose every Z is an
\* available number, every month has a defined PDSI, PHDI and WPLM.
C1_BacktrackingComplete ==
    (pc = "done" /\ AllAvailable) => \A n \in Months : Defined(n)

\* C2: after a month step that leaves the backtrack arrays empty, the month's
\* PDSI is its X, and its PHDI is its PX3 unless that is 0, and then its X.
C2_SpellRegime ==
    (pc # "done" /\ last.i >= 0 /\ K8 = 0) =>
        /\ df.PDSI[last.i] = df.X[last.i]
        /\ df.PHDI[last.i] = IF FEq(df.PX3[last.i], 0) THEN df.X[last.i]
                             ELSE df.PX3[last.i]

\* C2's case: a month of available Z ended with the arrays empty, after a
\* flush of buffered months, with an X3 that is not 0
C2_Witness ==
    /\ pc = "loop" /\ last.i >= 0 /\ K8 = 0 /\ last.K8in > 0
    /\ Available(last.i) /\ IsNum(df.PX3[last.i]) /\ df.PX3[last.i] # 0
    /\ IsNum(df.PDSI[last.i])

\* C3 (as claimed): a month step leaves K8 at 0 or at one more than it found.
C3_BufferLength ==
    (last.i >= 0) => (K8 = 0 \/ K8 = last.K8in + 1)

\* C4 (as claimed): after a month step with available Z the carried X1 is a
\* number >= 0 and the carried X2 is a number <= 0.
C4_Signs ==
    (last.i >= 0 /\ Available(last.i)) =>
        (IsNum(X1) /\ X1 >= 0 /\ IsNum(X2) /\ X2 <= 0)

\* C5 (as claimed, for the months of available Z): after a month step the
\* carried prob_ended lies in [0, 100].
C5_ProbabilityRange ==
    (last.i >= 0 /\ Available(last.i)) =>
        (IsNum(prob_ended) /\ 0 <= prob_ended /\ prob_ended <= 100000)

AllZeroSoFar == \A n \in Processed : df.Z[n] = 0

\* C6: while every Z so far is 0, the carried X3 is 0, nothing is in the
\* backtrack arrays and every processed month has PDSI = PHDI = WPLM = 0.
C6_NoAnomaly ==
    (last.i >= 0 /\ AllZeroSoFar) =>
        /\ X3 = 0
        /\ K8 = 0
        /\ \A n \in Processed :
              df.PDSI[n] = 0 /\ df.PHDI[n] = 0 /\ df.WPLM[n] = 0

\* C6's case: the whole series was 0 and _pdsi returned
C6_Witness == pc = "done" /\ \A n \in Months : df.Z[n] = 0

\* C7 (as claimed): the PDSI, PHDI and WPLM returned for a padded month are
\* not-available.
C7_PaddedStayNaN ==
    (pc = "done") =>
        \A n \in Months :
            (df.Z[n] = NaN) =>
                (df.PDSI[n] = NaN /\ df.PHDI[n] = NaN /\ df.WPLM[n] = NaN)

\* the handler of the last month step, and the PV it computed
WetAbatementStep == last.h \in {"WetAbates", "WetAbatementGoesOn"}

DryAbatementStep == last.h \in {"DroughtAbates", "DroughtAbatementGoesOn"}

IntensifyStep == last.h \in {"WetIntensifies", "DroughtIntensifies"}

LastPV ==
    IF WetAbatementStep THEN WetPV(df.Z[last.i], last.Vin)
    ELSE IF DryAbatementStep THEN DryPV(df.Z[last.i], last.Vin)
    ELSE 0

\* the abatement of the last month step reversed: _between_0s was called
Reversed ==
    \/ WetAbatementStep /\ FGe(LastPV, 0)
    \/ DryAbatementStep /\ FLe(LastPV, 0)

\* the abatement of the last month step went through _get_PPR_PX3
NonReversing ==
    \/ WetAbatementStep /\ ~FGe(LastPV, 0)
    \/ DryAbatementStep /\ ~FLe(LastPV, 0)

\* C21 (as claimed): a month for which _between_0s ran, by intensification
\* or by an abatement that reversed, ends with carried X1 = X2 = V =
\* prob_ended = 0, X3 = 0.897 * (X3 before) + Z / 3 and K8 = 0.
C21_ConsolidatePostState ==
    (last.i >= 0 /\ (IntensifyStep \/ Reversed)) =>
        /\ X1 = 0 /\ X2 = 0 /\ V = 0 /\ prob_ended = 0
        /\ X3 = Recurrence(last.X3in, df.Z[last.i])
        /\ K8 = 0

\* C22 (as claimed): once a month has a PDSI (the column starts as NaN, so
\* a number there was assigned), no month step and not the loop after the
\* last month changes that month's PDSI.
C22_FinalValuesAreFinal ==
    [][\A n \in Months : IsNum(df.PDSI[n]) => df'.PDSI[n] = df.PDSI[n]]_vars

\* the K8 that _compute_X was given in the last month step: what the step
\* found, or 0 when _between_0s had run before
ComputeXK8in == IF Reversed THEN 0 ELSE last.K8in

\* the last month step ran _compute_X to its third test and beyond: the
\* month's PX3 is 0 and neither PX1 nor PX2 established a spell
ThirdRuleCase ==
    /\ last.i >= 0 /\ ~IntensifyStep
    /\ FEq(df.PX3[last.i], 0)
    /\ FLt(df.PX1[last.i], 1000) /\ FGt(df.PX2[last.i], 0 - 1000)

\* C24 (as claimed): in that case the month is assigned, with the nonzero
\* one of PX1 and PX2 as its X, only if exactly one of them is nonzero;
\* with both 0 or both nonzero it is stored at position K8 of the backtrack
\* arrays and K8 grows by one.
C24_ThirdRule ==
    ThirdRuleCase =>
        LET i == last.i
        IN  IF FEq(df.PX1[i], 0) # FEq(df.PX2[i], 0)
            THEN /\ K8 = 0
                 /\ df.X[i] = IF FEq(df.PX1[i], 0) THEN df.PX2[i] ELSE df.PX1[i]
                 /\ df.PDSI[i] = df.X[i]
            ELSE /\ K8 = ComputeXK8in + 1
                 /\ df.X[i] = df.PX3[i]
                 /\ df.SX1[ComputeXK8in] = df.PX1[i]
                 /\ df.SX2[ComputeXK8in] = df.PX2[i]
                 /\ df.SX3[ComputeXK8in] = df.PX3[i]

\* min(0.897 * X2 + Z / 3, 0) for the X2 that _compute_X was given in the
\* last month step: the carried X2, or the 0 that _between_0s returned
ProvisionalX2 ==
    PyMin(Recurrence(IF Reversed THEN 0 ELSE last.X2in, df.Z[last.i]), 0)

\* C25 (as claimed): after every month step that ran _compute_X the carried
\* X2 is min(0.897 * X2 + Z / 3, 0), but for the month in which that value
\* establishes a drought, where it becomes X3 and X2 is 0.
C25_X2Recomputed ==
    (last.i >= 0 /\ ~IntensifyStep) =>
        \/ X2 = ProvisionalX2
        \/ FLe(ProvisionalX2, 0 - 1000) /\ X2 = 0 /\ X3 = ProvisionalX2

\* max(0.897 * X1 + Z / 3, 0) for the X1 that _compute_X was given in the
\* last month step
ProvisionalX1 ==
    PyMax(Recurrence(IF Reversed THEN 0 ELSE last.X1in, df.Z[last.i]), 0)

\* the month's PX3 when _compute_X was entered in the last month step: 0 from
\* the dispatcher, the recurrence from _between_0s, or what _get_PPR_PX3 wrote
PX3Before ==
    IF last.h = "NearNormal" THEN 0
    ELSE IF Reversed THEN Recurrence(last.X3in, df.Z[last.i])
    ELSE _get_PPR_PX3(df, last.probin,
                      IF WetAbatementStep
                      THEN FAdd(FMul(0 - 2691, last.X3in), 1500)
                      ELSE FSub(FMul(0 - 2691, last.X3in), 1500),
                      last.Vin, LastPV, last.i, last.X3in).PX3[last.i]

WetEstablished ==
    /\ last.i >= 0 /\ ~IntensifyStep
    /\ FGe(ProvisionalX1, 1000) /\ FEq(PX3Before, 0)

DroughtEstablished ==
    /\ last.i >= 0 /\ ~IntensifyStep /\ ~WetEstablished
    /\ FLe(ProvisionalX2, 0 - 1000) /\ FEq(PX3Before, 0)

\* the month of the last step was assigned x, and the months that waited in
\* the backtrack arrays were assigned by the walk of code iass
FinalizedWith(iass, x) ==
    /\ K8 = 0
    /\ df.X[last.i] = x
    /\ df.PDSI[last.i] = x
    /\ \A n \in 0 .. (ComputeXK8in - 1) :
          /\ df.SX[n] = BacktrackWalk(df, ComputeXK8in - 1, iass).SX[n]
          /\ df.PDSI[SeriesIndex(df.index_j[n], df.index_m[n])] = df.SX[n]

\* C26: when the provisional X1 is >= 1 and the month's X3 is 0, the month's
\* X and the carried X3 are that X1, the carried X1 is 0, the month and the
\* buffer are assigned with code 1 and K8 is 0; when X1 established nothing
\* and the provisional X2 is <= -1 with X3 = 0, the same with X2 and code 2.
C26_SpellEstablishment ==
    /\ WetEstablished =>
          X3 = ProvisionalX1 /\ X1 = 0 /\ FinalizedWith(1, ProvisionalX1)
    /\ DroughtEstablished =>
          X3 = ProvisionalX2 /\ X2 = 0 /\ FinalizedWith(2, ProvisionalX2)

\* C26's case: a wet spell was established in a month that found months
\* waiting in the backtrack arrays
C26_Witness ==
    /\ pc = "loop" /\ last.K8in > 0 /\ ~Reversed
    /\ WetEstablished /\ X3 = ProvisionalX1

\* the last month step found no abatement underway
FoundNoAbatement ==
    last.i >= 0 /\ (FEq(last.probin, 100000) \/ FEq(last.probin, 0))

\* C27: with prob_ended 0 or 100 at the start of a month exactly one of
\* abs(X3) <= 0.5, X3 > 0.5, X3 < -0.5 holds, and the month step is the one
\* the claim names: _compute_X with PPR = 0 and PV = 0 in the first case;
\* _between_0s if Z >= 0.15 and wet abatement otherwise in the second;
\* _between_0s if Z < -0.15 and drought abatement otherwise in the third.
C27_DispatchNoAbatement ==
    /\ (pc = "loop" /\ NoAbatement) =>
          LET near == FLe(FAbs(X3), 500)
              wet  == FGt(X3, 500)
              dry  == FLt(X3, 0 - 500)
          IN  (near \/ wet \/ dry) /\ ~(near /\ wet) /\ ~(near /\ dry) /\ ~(wet /\ dry)
    /\ FoundNoAbatement =>
          LET z == df.Z[last.i]
          IN  /\ FLe(FAbs(last.X3in), 500) =>
                    last.h = "NearNormal" /\ df.PPR[last.i] = 0 /\ V = 0
              /\ (FGt(last.X3in, 500) /\ FGe(z, 150)) =>
                    /\ last.h = "WetIntensifies"
                    /\ X3 = Recurrence(last.X3in, z) /\ V = 0 /\ K8 = 0
              /\ (FGt(last.X3in, 500) /\ ~FGe(z, 150)) =>
                    last.h = "WetAbates" /\ V = WetPV(z, last.Vin)
              /\ (FLt(last.X3in, 0 - 500) /\ FLt(z, 0 - 150)) =>
                    /\ last.h = "DroughtIntensifies"
                    /\ X3 = Recurrence(last.X3in, z) /\ V = 0 /\ K8 = 0
              /\ (FLt(last.X3in, 0 - 500) /\ ~FLt(z, 0 - 150)) =>
                    last.h = "DroughtAbates" /\ V = DryPV(z, last.Vin)

\* C27's case: a month that started with prob_ended = 100 and X3 = 0 went to
\* _compute_X, after a month in which a drought intensified
C27_Witness ==
    /\ pc = "loop" /\ last.h = "NearNormal" /\ last.probin = 100000
    /\ \E n \in Processed : FLt(df.Z[n], 0 - 150) /\ FLt(df.PX3[n], 0 - 1000)

\* Ze and Q of the abatement of the last month step, from the values the
\* step found
LastZe ==
    IF WetAbatementStep THEN FAdd(FMul(0 - 2691, last.X3in), 1500)
    ELSE FSub(FMul(0 - 2691, last.X3in), 1500)

LastQ == IF last.probin = 100000 THEN LastZe ELSE FAdd(LastZe, last.Vin)

\* (PV / Q) * 100.0
LastRatio == FMul(FDiv(LastPV, LastQ), 100000)

\* the carried X3 is x, or x is 0 and _compute_X established a spell
CarriedX3From(x) ==
    \/ X3 = x
    \/ /\ FEq(x, 0) /\ K8 = 0
       /\ \/ FGe(ProvisionalX1, 1000) /\ X3 = ProvisionalX1
          \/ FLe(ProvisionalX2, 0 - 1000) /\ X3 = ProvisionalX2

\* C28: after an abatement month that did not reverse, the month's PPR (the
\* carried prob_ended) is 100 when 100 * PV / Q >= 100 and that ratio
\* otherwise, with Q = Ze if the step found prob_ended = 100 and Ze + V if
\* not; the month's X3 is 0 in the first case and 0.897 * X3 + Z / 3 in the
\* second, unless _compute_X then establishes a spell on an X3 of 0.
C28_ProbabilityOfEnd ==
    (last.i >= 0 /\ NonReversing) =>
        IF FGe(LastRatio, 100000)
        THEN /\ df.PPR[last.i] = 100000 /\ prob_ended = 100000
             /\ CarriedX3From(0)
        ELSE /\ df.PPR[last.i] = LastRatio /\ prob_ended = LastRatio
             /\ CarriedX3From(Recurrence(last.X3in, df.Z[last.i]))

\* C28's case: an abatement that did not reverse in a month that started
\* with prob_ended = 100 and a V that is not 0, so that Q = Ze differs from
\* Ze + V
C28_Witness ==
    /\ pc = "loop" /\ last.i >= 0 /\ NonReversing
    /\ last.probin = 100000 /\ IsNum(last.Vin) /\ last.Vin # 0
    /\ IsNum(prob_ended) /\ prob_ended > 0 /\ prob_ended < 100000

\* C29: in an abatement month PV is (Z - 0.15) + min(V, 0) for a wet spell
\* and (Z + 0.15) + max(V, 0) for a drought, Ze is -2.691 * X3 + 1.5 and
\* -2.691 * X3 - 1.5; when the abatement does not reverse (PV < 0 wet,
\* PV > 0 dry) the carried V is that PV and the month's PPR is computed
\* from that PV and that Ze.
C29_AbatementAccumulators ==
    (last.i >= 0 /\ (WetAbatementStep \/ DryAbatementStep)) =>
        LET z  == df.Z[last.i]
            pv == IF WetAbatementStep
                  THEN FAdd(FSub(z, 150), PyMin(last.Vin, 0))
                  ELSE FAdd(FAdd(z, 150), PyMax(last.Vin, 0))
            ze == IF WetAbatementStep
                  THEN FAdd(FMul(0 - 2691, last.X3in), 1500)
                  ELSE FSub(FMul(0 - 2691, last.X3in), 1500)
            q  == IF last.probin = 100000 THEN ze ELSE FAdd(ze, last.Vin)
            ratio == FMul(FDiv(pv, q), 100000)
        IN  (IF WetAbatementStep THEN ~FGe(pv, 0) ELSE ~FLe(pv, 0)) =>
                /\ V = pv
                /\ prob_ended = IF FGe(ratio, 100000) THEN 100000 ELSE ratio

\* C29's case: a wet spell abated, without reversing, in a month that found
\* a positive V left by the drought abatement before it, so that min(V, 0)
\* is not V
C29_Witness ==
    /\ pc = "loop" /\ last.i >= 0 /\ WetAbatementStep /\ NonReversing
    /\ IsNum(last.Vin) /\ last.Vin > 0
    /\ IsNum(V) /\ V < 0

\* C30 (as claimed): in every month of available Z in which _get_PPR_PX3
\* computed the probability of end, the denominator Q was not 0.
C30_NoDivisionByZero ==
    (last.i >= 0 /\ NonReversing /\ Available(last.i)) => LastQ # 0

\* the last month step ran _compute_X and reached no conclusion: no spell
\* was established, and it is not so that PX3 is 0 with PX1 or PX2 0
DeferralCase ==
    /\ last.i >= 0 /\ ~IntensifyStep
    /\ ~WetEstablished /\ ~DroughtEstablished
    /\ ~(FEq(PX3Before, 0) /\ (FEq(ProvisionalX1, 0) \/ FEq(ProvisionalX2, 0)))

\* C32: deferral step.  When _compute_X reaches no conclusion, the month's
\* PX1, PX2 and PX3 are stored at position K8 of the backtrack arrays, the
\* month's X is its PX3 and K8 grows by exactly one; and a month step that
\* ends with months waiting (the deferral is the only way to that) has
\* written no PDSI, PHDI or WPLM of any month in _compute_X and has left the
\* positions below K8 unchanged.  The DataFrame and the K8 that _compute_X
\* was given are those of the month's start, or what _between_0s returned
\* when the abatement reversed.
C32_DeferralStep ==
    /\ [](DeferralCase =>
            LET i == last.i
                k == ComputeXK8in
            IN  /\ K8 = k + 1
                /\ df.SX1[k] = df.PX1[i]
                /\ df.SX2[k] = df.PX2[i]
                /\ df.SX3[k] = df.PX3[i]
                /\ df.X[i] = df.PX3[i]
                /\ SeriesIndex(df.index_j[k], df.index_m[k]) = i)
    /\ [][(pc = "loop" /\ K8' # 0) =>
            LET k == IF Reversed' THEN 0 ELSE K8
                given == IF Reversed'
                         THEN _between_0s(LoopTop(df'.Z[last'.i]), K8, X3, j, m).df
                         ELSE df
            IN  /\ K8' = k + 1
                /\ df'.PDSI = given.PDSI
                /\ df'.PHDI = given.PHDI
                /\ df'.WPLM = given.WPLM
                /\ \A n \in 0 .. (k - 1) :
                      /\ df'.SX1[n] = given.SX1[n]
                      /\ df'.SX2[n] = given.SX2[n]
                      /\ df'.SX3[n] = given.SX3[n]
                      /\ df'.index_j[n] = given.index_j[n]
                      /\ df'.index_m[n] = given.index_m[n]]_vars

\* C32's case: a month of available Z was deferred behind two months that
\* were already waiting in the backtrack arrays
C32_Witness ==
    /\ pc = "loop" /\ DeferralCase /\ ~Reversed /\ Available(last.i)
    /\ last.K8in = 2 /\ K8 = 3
    /\ df.SX3[2] = df.PX3[last.i] /\ ~IsNum(df.PDSI[last.i])

\* C33 (as claimed): flush with code 3.  When _between_0s runs in a month
\* that found months waiting in the backtrack arrays, by intensification or
\* by an abatement that reversed, the PDSI of the month at every position
\* below K8 becomes the SX3 stored at that position, the PDSI of the month
\* itself becomes its new X3 = 0.897 * X3 + Z / 3, and no month is waiting
\* when the month ends.
C33_FlushWithCode3 ==
    [][(pc = "loop" /\ K8 > 0 /\ (IntensifyStep' \/ Reversed')) =>
          /\ \A n \in 0 .. (K8 - 1) :
                df'.PDSI[SeriesIndex(df.index_j[n], df.index_m[n])] = df.SX3[n]
          /\ df'.PDSI[last'.i] = Recurrence(X3, df'.Z[last'.i])
          /\ K8' = 0]_vars

\* the months waiting in the backtrack arrays are the K8 most recent ones;
\* month n of them waits at position n - (first waiting month)
Waiting(n) == n \in Months /\ n > last.i - K8 /\ n <= last.i

PositionOf(n) == n - ((last.i - K8) + 1)

\* C34: terminal flush.  In the loop after the last month, every month
\* still waiting receives PDSI = its stored SX3, PHDI = that X3 (the PDSI
\* value when the X3 is 0) and WPLM = _case of the month's PPR, PX1, PX2,
\* PX3; the PDSI, PHDI and WPLM of every other month are unchanged.
C34_TerminalFlush ==
    [][(pc = "flush") =>
          \A n \in Months :
              IF Waiting(n)
              THEN /\ df'.PDSI[n] = df.SX3[PositionOf(n)]
                   /\ df.PX3[n] = df.SX3[PositionOf(n)]
                   /\ df'.PHDI[n] = IF FEq(df.SX3[PositionOf(n)], 0)
                                    THEN df'.PDSI[n]
                                    ELSE df.SX3[PositionOf(n)]
                   /\ df'.WPLM[n] = _case(df.PPR[n], df.PX1[n], df.PX2[n], df.PX3[n])
              ELSE /\ df'.PDSI[n] = df.PDSI[n]
                   /\ df'.PHDI[n] = df.PHDI[n]
                   /\ df'.WPLM[n] = df.WPLM[n]]_vars

\* C34's case: _pdsi returned after a terminal flush of three months of
\* available Z, behind months that were assigned before
C34_Witness ==
    /\ pc = "done" /\ K8 = 3 /\ AllAvailable
    /\ \A n \in Months : Waiting(n) => IsNum(df.PDSI[n]) /\ df.PDSI[n] = df.SX3[PositionOf(n)]
    /\ IsNum(df.PDSI[0])

\* the last month step called _assign with months waiting in the backtrack
\* arrays: it ended with none waiting, or _between_0s ran before _compute_X
Flushed ==
    /\ last.i >= 0 /\ last.K8in > 0
    /\ K8 = 0 \/ Reversed

\* the months that flush assigned: those that waited and the month itself
FlushedMonths == {n \in Months : last.i - last.K8in <= n /\ n <= last.i}

\* C35: PHDI and WPLM of backtracked months.  After _assign flushed a
\* non-empty buffer, the PHDI of every flushed month is the month's own PX3
\* unless that is 0, and then the PDSI the month was just assigned; its WPLM
\* is _case of the month's own PPR, PX1, PX2 and PX3.
C35_BacktrackedPHDIWPLM ==
    Flushed =>
        \A n \in FlushedMonths :
            /\ df.PHDI[n] = IF FEq(df.PX3[n], 0) THEN df.PDSI[n] ELSE df.PX3[n]
            /\ df.WPLM[n] = _case(df.PPR[n], df.PX1[n], df.PX2[n], df.PX3[n])

\* C35's case: a flush of two waiting months of available Z, one with PX3 = 0
\* whose PHDI is its PDSI, one with a PX3 that is not its PDSI
C35_Witness ==
    /\ pc = "loop" /\ Flushed /\ last.K8in >= 2 /\ K8 = 0
    /\ \E n \in FlushedMonths :
          /\ n < last.i /\ df.PX3[n] = 0
          /\ IsNum(df.PDSI[n]) /\ df.PDSI[n] # 0 /\ df.PHDI[n] = df.PDSI[n]
    /\ \E n \in FlushedMonths :
          /\ n < last.i /\ IsNum(df.PX3[n]) /\ df.PX3[n] # 0
          /\ IsNum(df.PDSI[n]) /\ df.PDSI[n] # df.PX3[n] /\ df.PHDI[n] = df.PX3[n]

\* C36: buffer alignment.  At the end of every month step with K8 > 0, the
\* positions 0 .. K8-1 of index_j and index_m refer to the K8 most recent
\* months, in chronological order and without gaps, and SX1, SX2, SX3 at a
\* position are the PX1, PX2, PX3 of the month the position refers to.
C36_BufferAlignment ==
    (last.i >= 0 /\ K8 > 0) =>
        \A n \in 0 .. (K8 - 1) :
            LET month == SeriesIndex(df.index_j[n], df.index_m[n])
            IN  /\ month = ((last.i - K8) + 1) + n
                /\ df.SX1[n] = df.PX1[month]
                /\ df.SX2[n] = df.PX2[month]
                /\ df.SX3[n] = df.PX3[month]

\* C36's case: a month whose abatement reversed found a month waiting, and
\* after the flush it waits alone at position 0
C36_Witness ==
    /\ pc = "loop" /\ last.i >= 0 /\ Available(last.i)
    /\ Reversed /\ last.K8in >= 1 /\ K8 = 1
    /\ SeriesIndex(df.index_j[0], df.index_m[0]) = last.i
    /\ IsNum(df.SX3[0]) /\ df.SX3[0] # 0

\* ---------------------------------------------------------------------------
\* _assign called on its own, on a DataFrame as _pdsi hands it over: months
\* 0 .. K8-1 of the first year wait in the backtrack arrays, each with its
\* stored PX1 (never negative), PX2 (never positive) and PX3, and month K8
\* is the month that _compute_X or _between_0s has just given an X.

MaxBuffer == 3
StoredX1 == {0, 100}
StoredX2 == {0 - 100, 0}
\* the PX3 of a month of abating drought: 0.897 * (-1.0) + 0.3 / 3
StoredX3 == Recurrence(0 - 1000, 300)
AssignCodes == {1, 2, 3}

\* the X of the current month for each code: a wet spell established, a
\* drought established, the X3 of a consolidated month
CurrentX(iass) == IF iass = 1 THEN 1000 ELSE IF iass = 2 THEN 0 - 1000 ELSE 0 - 1200

BufferedDf(k, s1, s2, iass) ==
    [c \in FloatColumns \cup IndexColumns |->
        [n \in Months |->
            IF c = "index_m" THEN (IF n <= k THEN n ELSE 0)
            ELSE IF c = "index_j" THEN 0
            ELSE IF c = "Z" THEN (IF n <= k THEN 0 ELSE NaN)
            ELSE IF n = k
                 THEN (IF c \in {"X", "PX3"} THEN CurrentX(iass)
                       ELSE IF c \in {"PX1", "PX2"} THEN 0
                       ELSE IF c = "PPR" THEN (IF iass = 3 THEN 0 ELSE 100000)
                       ELSE NaN)
            ELSE IF n > k THEN NaN
            ELSE IF c \in {"SX1", "PX1"} THEN s1[n]
            ELSE IF c \in {"SX2", "PX2"} THEN s2[n]
            ELSE IF c \in {"SX3", "PX3", "X"} THEN StoredX3
            ELSE IF c = "PPR" THEN 30000
            ELSE NaN]]

AssignInit ==
    /\ pc = "assign"
    /\ j = 0
    /\ X1 = 0
    /\ X2 = 0
    /\ X3 = 0
    /\ V = 0
    /\ prob_ended = 0
    /\ nchg = 0
    /\ cs = "idle"
    /\ wb = "idle"
    /\ caf = "idle"
    /\ clim = "idle"
    /\ runs = "idle"
    /\ rs = "idle"
    /\ \E k \in 1 .. MaxBuffer, iass \in AssignCodes :
         \E s1 \in [0 .. (k - 1) -> StoredX1], s2 \in [0 .. (k - 1) -> StoredX2] :
            /\ K8 = k
            /\ m = k
            /\ df = BufferedDf(k, s1, s2, iass)
            /\ last = [h |-> "_assign", i |-> k, iass |-> iass]

AssignCall ==
    /\ pc = "assign"
    /\ df' = _assign(df, last.iass, K8, j, m)
    /\ pc' = "assigned"
    /\ UNCHANGED <<j, m, X1, X2, X3, V, prob_ended, K8, nchg, last, cs, wb, caf, clim, runs, rs>>

AssignSpec == AssignInit /\ [][AssignCall]_vars

\* the buffered values of the walk's own series and of the other one
OwnSeries == IF last.iass = 1 THEN df.SX1 ELSE df.SX2

OtherSeries == IF last.iass = 1 THEN df.SX2 ELSE df.SX1

\* what a walk with a single switch gives buffer position n: the other
\* series when n or a more recent position stores exactly 0 in the own series
SingleSwitch(n) ==
    IF \E q \in n .. (K8 - 1) : FEq(OwnSeries[q], 0)
    THEN OtherSeries[n]
    ELSE OwnSeries[n]

\* C23 (as claimed): after _assign with code 1 or 2 on a non-empty buffer,
\* every buffered month has the value of a walk that switches series once,
\* at the most recent month whose stored own value is 0, and never back.
C23_SingleSwitchWalk ==
    (pc = "assigned" /\ last.iass \in {1, 2}) =>
        \A n \in 0 .. (K8 - 1) :
            /\ df.SX[n] = SingleSwitch(n)
            /\ df.PDSI[SeriesIndex(df.index_j[n], df.index_m[n])] = SingleSwitch(n)

\* ---------------------------------------------------------------------------
\* _case called on its own, for every argument tuple drawn from small sets

ProbVals == {0 - 5000, 0, 25000, 50000, 100000, 120000, NaN}
XVals == {0 - 2000, 0 - 1000, 0, 1000, 2000, NaN}

PdsiIdle ==
    /\ pc = "idle"
    /\ j = 0
    /\ m = 0
    /\ X1 = 0
    /\ X2 = 0
    /\ X3 = 0
    /\ V = 0
    /\ prob_ended = 0
    /\ K8 = 0
    /\ df = <<>>
    /\ nchg = 0
    /\ last = NoStep

CaseInit ==
    /\ PdsiIdle
    /\ wb = "idle"
    /\ caf = "idle"
    /\ clim = "idle"
    /\ runs = "idle"
    /\ rs = "idle"
    /\ \E P \in ProbVals, a \in XVals, b \in XVals, c \in XVals :
         cs = [pc |-> "call", PROB |-> P, X1 |-> a, X2 |-> b, X3 |-> c, WPLM |-> NaN]

CaseCall ==
    /\ cs.pc = "call"
    /\ cs' = [cs EXCEPT !.pc = "returned",
                        !.WPLM = _case(cs.PROB, cs.X1, cs.X2, cs.X3)]
    /\ UNCHANGED <<pdsiVars, wb, caf, clim, runs, rs>>

CaseSpec == CaseInit /\ [][CaseCall]_vars

\* C8: WPLM selection.  For every (PROB, X1, X2, X3) the value _case returns
\* is: when X3 == 0, X2 if |X2| > |X1| and otherwise X1; when X3 != 0 and
\* 0 < PROB < 100, (1 - PROB/100)*X3 + (PROB/100)*X2 if X3 > 0 and
\* (1 - PROB/100)*X3 + (PROB/100)*X1 if X3 < 0; in every other case X3.
C8_WplmSelection ==
    (cs.pc = "returned") =>
        LET p == FDiv(cs.PROB, 100000)
            blend(x) == FAdd(FMul(FSub(1000, p), cs.X3), FMul(p, x))
        IN  /\ FEq(cs.X3, 0) /\ FGt(FAbs(cs.X2), FAbs(cs.X1)) => cs.WPLM = cs.X2
            /\ FEq(cs.X3, 0) /\ ~FGt(FAbs(cs.X2), FAbs(cs.X1)) => cs.WPLM = cs.X1
            /\ ~FEq(cs.X3, 0) /\ FGt(cs.PROB, 0) /\ FLt(cs.PROB, 100000) /\ FGt(cs.X3, 0)
                 => cs.WPLM = blend(cs.X2)
            /\ ~FEq(cs.X3, 0) /\ FGt(cs.PROB, 0) /\ FLt(cs.PROB, 100000) /\ FLt(cs.X3, 0)
                 => cs.WPLM = blend(cs.X1)
            /\ ~FEq(cs.X3, 0) /\ ~(FGt(cs.PROB, 0) /\ FLt(cs.PROB, 100000))
                 => cs.WPLM = cs.X3
            /\ cs.X3 = NaN => cs.WPLM = cs.X3

\* a blend and a magnitude tie have both been computed
C8_Witness ==
    /\ cs.pc = "returned"
    /\ cs.PROB = 25000 /\ cs.X3 = 2000 /\ cs.X2 = 0 - 1000 /\ cs.X1 = 1000
    /\ cs.WPLM = 1250

\* ---------------------------------------------------------------------------
\* _water_balance: the two-layer soil-moisture accounting, month by month.
\* The daily potential evapotranspiration that the temperature formula gives
\* is an input of the month; the month's row of the thirteen
\* output arrays is kept in wb.row (no later month reads an earlier row).
\* The weather of the series is piecewise constant, with at most WbChanges
\* changes of the pair (precipitation, daily PE).

WbYears == 2
WbChanges == 2
begin_year == 1895
WCTOP == 1000
AWCVals == {0, 2000, 5000}
PrecipVals == {0, 1000, 9000}
DailyPEVals == {0, 100, 250}

IsLeap(year) == (year % 4 = 0) /\ ((year % 100 # 0) \/ (year % 400 = 0))

\* calendar.monthrange(year, month_index + 1)[1]
DaysInMonth(year, month_index) ==
    IF month_index = 1 THEN (IF IsLeap(year) THEN 29 ELSE 28)
    ELSE IF month_index \in {3, 5, 8, 10} THEN 30 ELSE 31

\* (mutant of PotentialLoss: the loss is not capped at SP)
PotentialLoss_Uncapped(SS, SU, SP, PE, AWC) ==
    IF FGe(SS, PE)
    THEN PE
    ELSE FAdd(FDiv(FMul(FSub(PE, SS), SU), FAdd(AWC, WCTOP)), SS)

\* potential loss
PotentialLoss(SS, SU, SP, PE, AWC) ==
    IF FGe(SS, PE)
    THEN PE
    ELSE PyMin(FAdd(FDiv(FMul(FSub(PE, SS), SU), FAdd(AWC, WCTOP)), SS), SP)

\* (mutant of UnderLayerLoss: the loss is not capped at the layer's content)
UnderLayerLoss_Uncapped(PE, precipitation, SL, SU, WCTOT) ==
    FDiv(FMul(FSub(FSub(PE, precipitation), SL), SU), WCTOT)

\* loss from the underlying layer when evaporation empties the surface layer
UnderLayerLoss(PE, precipitation, SL, SU, WCTOT) ==
    PyMin(FDiv(FMul(FSub(FSub(PE, precipitation), SL), SU), WCTOT), SU)

\* (mutant of RechargeBoth: what the surface layer cannot take runs off, the
\* underlying layer is not recharged)
RechargeBoth_SurfaceOnly(SU, excess, AWC, RS) ==
    [R |-> RS, RO |-> FSub(excess, RS), SSS |-> WCTOP, SSU |-> SU]

\* precipitation exceeds PE by more than the surface layer can take: the
\* surface layer is filled with RS and the underlying layer takes the rest up
\* to its capacity, what is left runs off
RechargeBoth(SU, excess, AWC, RS) ==
    IF FLt(FSub(excess, RS), FSub(AWC, SU))
    THEN [R |-> FAdd(RS, FSub(excess, RS)), RO |-> 0,
          SSS |-> WCTOP, SSU |-> FAdd(SU, FSub(excess, RS))]
    ELSE [R |-> FAdd(RS, FSub(AWC, SU)),
          RO |-> FSub(FSub(excess, RS), FSub(AWC, SU)),
          SSS |-> WCTOP, SSU |-> FAdd(SU, FSub(AWC, SU))]

\* precipitation is at least PE
Recharge(SS, SU, precipitation, PE, AWC) ==
    [ET |-> PE, TL |-> 0] @@
    (IF FGt(FSub(precipitation, PE), FSub(WCTOP, SS))
     THEN RechargeBoth(SU, FSub(precipitation, PE), AWC, FSub(WCTOP, SS))
     ELSE [R |-> FSub(precipitation, PE), RO |-> 0,
           SSS |-> FSub(FAdd(SS, precipitation), PE), SSU |-> SU])

\* (mutant of Losses: the evapotranspiration leaves out the loss from the
\* underlying layer)
Losses_SurfaceET(precipitation, SL, UL, SSS, SSU) ==
    [ET |-> FAdd(precipitation, SL), TL |-> FAdd(SL, UL),
     R |-> 0, RO |-> 0, SSS |-> SSS, SSU |-> SSU]

\* the month's losses SL from the surface layer and UL from the underlying one
Losses(precipitation, SL, UL, SSS, SSU) ==
    [ET |-> FAdd(FAdd(precipitation, SL), UL), TL |-> FAdd(SL, UL),
     R |-> 0, RO |-> 0, SSS |-> SSS, SSU |-> SSU]

\* evaporation empties the surface layer and draws UL from the underlying one
BothLayers(SS, SU, precipitation, UL) ==
    Losses(precipitation, SS, UL, 0, FSub(SU, UL))

\* PE exceeds precipitation
Evaporation(SS, SU, precipitation, PE, WCTOT) ==
    IF FGe(SS, FSub(PE, precipitation))
    THEN Losses(precipitation, FSub(PE, precipitation), 0,
                FSub(SS, FSub(PE, precipitation)), SU)
    ELSE BothLayers(SS, SU, precipitation,
                    UnderLayerLoss(PE, precipitation, SS, SU, WCTOT))

\* recharge, runoff, loss and end-of-month moisture of one month
Balance(SS, SU, precipitation, PE, AWC, WCTOT) ==
    IF FGe(precipitation, PE)
    THEN Recharge(SS, SU, precipitation, PE, AWC)
    ELSE Evaporation(SS, SU, precipitation, PE, WCTOT)

\* the month's row of the output arrays, and the moisture carried on
StoreMonth(w, precipitation, PE, SP, b) ==
    LET last_month == w.month_index = MonthsPerYear - 1
        last_year == w.year_index = WbYears - 1
    IN  [w EXCEPT !.row = [P |-> precipitation, SP |-> SP, PE |-> PE,
                           PL |-> PotentialLoss(w.SS, w.SU, SP, PE, w.AWC),
                           PR |-> FSub(FAdd(w.AWC, WCTOP), SP),
                           R |-> b.R, TL |-> b.TL, ET |-> b.ET,
                           RO |-> b.RO, PRO |-> SP, SSS |-> b.SSS, SSU |-> b.SSU,
                           SS0 |-> w.SS, SU0 |-> w.SU,
                           year |-> begin_year + w.year_index,
                           month_index |-> w.month_index],
                  !.SS = b.SSS,
                  !.SU = b.SSU,
                  !.month_index = IF last_month THEN 0 ELSE w.month_index + 1,
                  !.year_index = IF last_month THEN w.year_index + 1 ELSE w.year_index,
                  !.pc = IF last_month /\ last_year THEN "done" ELSE "loop"]

\* the loop body once the month's PE is known
MonthWithPE(w, precipitation, PE) ==
    StoreMonth(w, precipitation, PE, FAdd(w.SS, w.SU),
               Balance(w.SS, w.SU, precipitation, PE, w.AWC, FAdd(w.AWC, WCTOP)))

\* the body of the loop on years and months: the daily PE is converted to
\* the month's PE with the number of days of the month
WaterBalanceMonth(w, precipitation, dailyPE) ==
    MonthWithPE(w, precipitation,
                FMul(dailyPE, DaysInMonth(begin_year + w.year_index, w.month_index) * Scale))

NoRow == [year |-> 0 - 1]

WbInit ==
    /\ PdsiIdle
    /\ cs = "idle"
    /\ caf = "idle"
    /\ clim = "idle"
    /\ runs = "idle"
    /\ rs = "idle"
    /\ \E A \in AWCVals :
         wb = [pc |-> "loop", AWC |-> A, year_index |-> 0, month_index |-> 0,
               SS |-> WCTOP, SU |-> A, row |-> NoRow, padded |-> FALSE,
               weather |-> <<>>, nchg |-> 0]

\* a month whose temperature and precipitation are available
WbMonth ==
    /\ wb.pc = "loop"
    /\ ~wb.padded
    /\ \E precipitation \in PrecipVals, dailyPE \in DailyPEVals :
         LET weather == <<precipitation, dailyPE>>
             change == wb.row # NoRow /\ weather # wb.weather
         IN  /\ change => wb.nchg < WbChanges
             /\ wb' = [WaterBalanceMonth(wb, precipitation, dailyPE)
                          EXCEPT !.weather = weather,
                                 !.nchg = IF change THEN wb.nchg + 1 ELSE wb.nchg]
    /\ UNCHANGED <<pdsiVars, cs, caf, clim, runs, rs>>

\* a trailing month of the final year that the reshape padded with NaN
WbPaddedMonth ==
    /\ wb.pc = "loop"
    /\ wb.year_index = WbYears - 1
    /\ wb.month_index >= 1
    /\ wb' = [WaterBalanceMonth(wb, NaN, NaN) EXCEPT !.padded = TRUE]
    /\ UNCHANGED <<pdsiVars, cs, caf, clim, runs, rs>>

WbNext == WbMonth \/ WbPaddedMonth

WbSpec == WbInit /\ [][WbNext]_vars

\* C9: soil-moisture bounds.  Starting from SS = 1.0 and SU = AWC, after every
\* month of a sequence of months with precipitation >= 0 and PE >= 0 the
\* moisture of the two layers satisfies 0 <= SS <= 1.0 and 0 <= SU <= AWC.
C9_SoilMoistureBounds ==
    (wb.row # NoRow /\ ~wb.padded) =>
        /\ IsNum(wb.SS) /\ 0 <= wb.SS /\ wb.SS <= WCTOP
        /\ IsNum(wb.SU) /\ 0 <= wb.SU /\ wb.SU <= wb.AWC

\* evaporation has drawn on both layers and the cap on the under-layer loss
\* was the smaller value
C9_Witness ==
    /\ wb.row # NoRow /\ ~wb.padded
    /\ wb.row.SU0 > 0
    /\ wb.row.PE - wb.row.P - wb.row.SS0 > wb.AWC + WCTOP
    /\ wb.SU = 0 /\ wb.SS = 0

\* the month of wb.row had available temperature and precipitation
AvailableRow == wb.row # NoRow /\ ~wb.padded

\* C37: water-balance conservation.  For every month of available data,
\* P = ET + R + RO - TL, and the moisture at the end of the month is
\* SSS + SSU = SS + SU + R - TL for the SS and SU of the month's start.
C37_Conservation ==
    AvailableRow =>
        LET r == wb.row
        IN  /\ r.P = FSub(FAdd(FAdd(r.ET, r.R), r.RO), r.TL)
            /\ FAdd(r.SSS, r.SSU) = FSub(FAdd(FAdd(r.SS0, r.SU0), r.R), r.TL)

\* C37's case: a month in which precipitation refilled both layers from a
\* depleted underlying layer and the remainder ran off
C37_Witness ==
    /\ AvailableRow
    /\ wb.row.RO > 0 /\ wb.row.R > WCTOP - wb.row.SS0 /\ wb.row.SU0 < wb.AWC

\* C38: runoff only from saturated soil.  In every month of available data,
\* RO > 0 implies precipitation >= PE and both layers at capacity at the end
\* of the month (SSS = 1.0, SSU = AWC); with precipitation < PE, R = 0 and
\* RO = 0, and the underlying layer loses moisture only in a month that
\* leaves the surface layer at 0.
C38_RunoffFromSaturatedSoil ==
    AvailableRow =>
        LET r == wb.row
        IN  /\ FGt(r.RO, 0) =>
                  FGe(r.P, r.PE) /\ r.SSS = WCTOP /\ r.SSU = wb.AWC
            /\ FLt(r.P, r.PE) =>
                  /\ r.R = 0 /\ r.RO = 0
                  /\ FLe(r.SSS, r.SS0) /\ FLe(r.SSU, r.SU0)
                  /\ (r.SSU # r.SU0) => (r.SSS = 0)
                  /\ (r.SSS # 0) => (r.SSS = FSub(r.SS0, FSub(r.PE, r.P)))

\* C38's case: in a month with precipitation below PE the evaporation
\* emptied the surface layer and then drew on the underlying layer
C38_Witness ==
    /\ AvailableRow
    /\ wb.row.P > 0 /\ wb.row.P < wb.row.PE
    /\ wb.row.SS0 > 0 /\ wb.row.SSS = 0 /\ wb.row.SSU < wb.row.SU0

DataBeginYears == {1895, 1896}

ClimatologyInit ==
    /\ PdsiIdle
    /\ cs = "idle"
    /\ caf = "idle"
    /\ clim = "idle"
    /\ runs = "idle"
    /\ rs = "idle"
    /\ \E A \in AWCVals, y \in DataBeginYears :
         wb = [pc |-> "loop", AWC |-> A, year_index |-> 0, month_index |-> 0,
               SS |-> WCTOP, SU |-> A, row |-> NoRow, padded |-> FALSE,
               weather |-> <<>>, nchg |-> 0, data_begin_year |-> y]

ClimatologySpec == ClimatologyInit /\ [][WbNext]_vars

\* the year index of the month of wb.row
RowYearIndex == IF wb.month_index = 0 THEN wb.year_index - 1 ELSE wb.year_index

\* C40 (as claimed): the day count follows the data's calendar.  For every
\* data_begin_year, the PE of each month of available data is the daily PE
\* times the number of days of that month in the year data_begin_year +
\* year index: 29 for a February of a leap year of the data, 28 otherwise.
C40_DayCountFollowsData ==
    AvailableRow =>
        wb.row.PE = FMul(wb.weather[2],
                         DaysInMonth(wb.data_begin_year + RowYearIndex,
                                     wb.row.month_index) * Scale)

\* ---------------------------------------------------------------------------
\* _cafec_coefficients: the calibration rows, the twelve sums of each series
\* and the coefficients of each calendar month.  The ten arrays arrive with
\* shape (years, 12); a year's rows are a pattern of values times the year's
\* factor, and the final year may end in NaN padding.

CafYears == 3
CalendarMonths == 0 .. (MonthsPerYear - 1)
DataYears == 0 .. (CafYears - 1)
data_start_year == 1895
YearFactors == {1, 2}
CafSeries == {"P", "PET", "ET", "PR", "R", "RO", "PRO", "L", "PL", "SP"}
SummedSeries == {"P", "ET", "PET", "R", "PR", "L", "PL", "RO", "SP"}
PotentialSeries == {"PET", "PR", "PL", "SP", "PRO"}

\* the values of a year of factor 1: every fourth month has all series
\* positive, the next has the potential series 0, the next has every series
\* 0 and the next has P and L 0
BaseValue(series, i) ==
    LET positive == [P |-> 3000, PET |-> 4000, ET |-> 2500, PR |-> 1500,
                     R |-> 500, RO |-> 250, PRO |-> 4500, L |-> 750,
                     PL |-> 1250, SP |-> 4500]
    IN  IF i % 4 = 1 /\ series \in PotentialSeries THEN 0
        ELSE IF i % 4 = 2 THEN 0
        ELSE IF i % 4 = 3 /\ series \in {"P", "L"} THEN 0
        ELSE positive[series]

InputArrays(factor, first_padded) ==
    [series \in CafSeries |->
        [y \in DataYears |->
            [i \in CalendarMonths |->
                IF y = CafYears - 1 /\ i >= first_padded
                THEN NaN
                ELSE factor[y] * BaseValue(series, i)]]]

Min(a, b) == IF a < b THEN a ELSE b
Max(a, b) == IF a > b THEN a ELSE b

\* (mutant of SliceRows: the stop index is taken as the last row, as if
\* the slice were written without the + 1)
SliceRows_StopInclusive(n, start, stop) ==
    LET from == IF start < 0 THEN Max(start + n, 0) ELSE Min(start, n)
        to   == IF stop < 0 THEN Max(stop + n, 0) ELSE Min(stop, n)
    IN  {y \in 0 .. (n - 1) : from <= y /\ y < to - 1}

\* the row indices that array[start:stop] selects from an array of n rows
SliceRows(n, start, stop) ==
    LET from == IF start < 0 THEN Max(start + n, 0) ELSE Min(start, n)
        to   == IF stop < 0 THEN Max(stop + n, 0) ELSE Min(stop, n)
    IN  {y \in 0 .. (n - 1) : from <= y /\ y < to}

\* the rows of the calibration-period arrays
CalibrationRows(c) ==
    LET total_data_years == CafYears \div 12
        data_end_year == (c.data_start_year + total_data_years) - 1
        calibration_start_year_index == c.calibration_start_year - c.data_start_year
        calibration_end_year_index == c.calibration_end_year - c.data_start_year
    IN  IF (c.calibration_start_year > c.data_start_year)
           \/ (c.calibration_end_year < data_end_year)
        THEN SliceRows(CafYears, calibration_start_year_index,
                       calibration_end_year_index + 1)
        ELSE DataYears

\* np.nansum along the year axis, for calendar month i
RECURSIVE NanSum(_, _, _)
NanSum(array, rows, i) ==
    IF rows = {}
    THEN 0
    ELSE LET y == CHOOSE r \in rows : TRUE
             rest == NanSum(array, rows \ {y}, i)
         IN  IF array[y][i] = NaN THEN rest ELSE FAdd(array[y][i], rest)

NoCoefficients == [i \in CalendarMonths |-> NaN]

CafecInit ==
    /\ PdsiIdle
    /\ cs = "idle"
    /\ wb = "idle"
    /\ clim = "idle"
    /\ runs = "idle"
    /\ rs = "idle"
    /\ \E factor \in [DataYears -> YearFactors], first_padded \in {6, MonthsPerYear},
          cal_start \in (data_start_year - 1) .. (data_start_year + CafYears - 1) :
         \E cal_end \in cal_start .. (data_start_year + CafYears) :
           caf = [pc |-> "sums", arrays |-> InputArrays(factor, first_padded),
                  data_start_year |-> data_start_year,
                  calibration_start_year |-> cal_start,
                  calibration_end_year |-> cal_end,
                  rows |-> {}, sums |-> <<>>, i |-> 0,
                  alpha |-> NoCoefficients, beta |-> NoCoefficients,
                  gamma |-> NoCoefficients, delta |-> NoCoefficients,
                  t_ratio |-> NoCoefficients]

\* the calibration-period arrays and their sums by calendar month
CafecSums ==
    /\ caf.pc = "sums"
    /\ LET rows == CalibrationRows(caf)
       IN  caf' = [caf EXCEPT
                     !.rows = rows,
                     !.sums = [series \in SummedSeries |->
                                 [i \in CalendarMonths |-> NanSum(caf.arrays[series], rows, i)]],
                     !.pc = "loop"]
    /\ UNCHANGED <<pdsiVars, cs, wb, clim, runs, rs>>

\* a ratio of two sums with the value the code gives when the divisor is 0
GuardedRatio(num, den, both_zero) ==
    IF ~FEq(den, 0) THEN FDiv(num, den)
    ELSE IF FEq(num, 0) THEN both_zero ELSE 0

\* (mutant of CoefficientRatio: with both sums 0 the coefficient is 0.0)
CoefficientRatio_NoOne(num, den) == GuardedRatio(num, den, 0)

\* alpha, beta and gamma: 1.0 when both sums are 0
CoefficientRatio(num, den) == GuardedRatio(num, den, 1000)

\* (mutant of DeltaRatio: delta follows the rule of alpha, beta and gamma)
DeltaRatio_WithOne(num, den) == GuardedRatio(num, den, 1000)

\* delta: 0.0 whenever PL_sum is 0
DeltaRatio(num, den) == GuardedRatio(num, den, 0)

\* one pass of the loop over the calendar months
CafecMonth ==
    /\ caf.pc = "loop"
    /\ LET i == caf.i
           S == caf.sums
       IN  caf' = [caf EXCEPT
                     !.alpha[i] = CoefficientRatio(S.ET[i], S.PET[i]),
                     !.beta[i] = CoefficientRatio(S.R[i], S.PR[i]),
                     !.gamma[i] = CoefficientRatio(S.RO[i], S.SP[i]),
                     !.delta[i] = DeltaRatio(S.L[i], S.PL[i]),
                     !.t_ratio[i] = FDiv(FAdd(FAdd(S.PET[i], S.R[i]), S.RO[i]),
                                         FAdd(S.P[i], S.L[i])),
                     !.i = i + 1,
                     !.pc = IF i = MonthsPerYear - 1 THEN "done" ELSE "loop"]
    /\ UNCHANGED <<pdsiVars, cs, wb, clim, runs, rs>>

CafecNext == CafecSums \/ CafecMonth

CafecSpec == CafecInit /\ [][CafecNext]_vars

\* the calibration window lies inside the data's year range
WindowInside ==
    /\ caf.data_start_year <= caf.calibration_start_year
    /\ caf.calibration_start_year <= caf.calibration_end_year
    /\ caf.calibration_end_year <= (caf.data_start_year + CafYears) - 1

\* the rows of the calibration years
WindowRows ==
    {y \in DataYears :
        /\ caf.calibration_start_year <= caf.data_start_year + y
        /\ caf.data_start_year + y <= caf.calibration_end_year}

\* C10: calibration restriction.  For every calibration window inside the
\* data's year range, the twelve sums of each of P, ET, PET, R, PR, L, PL, RO
\* and SP are taken over exactly the rows of the calibration years, also when
\* calibration_start_year == data_start_year and calibration_end_year is
\* earlier than the last data year.
C10_CalibrationRestriction ==
    (caf.pc # "sums" /\ WindowInside) =>
        /\ caf.rows = WindowRows
        /\ \A series \in SummedSeries : \A i \in CalendarMonths :
             caf.sums[series][i] = NanSum(caf.arrays[series], WindowRows, i)

\* the calendar months whose coefficients the loop has computed
ComputedMonths == {i \in CalendarMonths : caf.pc = "done" \/ (caf.pc = "loop" /\ i < caf.i)}

\* the value the zero-guard of alpha, beta and gamma prescribes
GuardWithOne(num, den, coefficient) ==
    /\ den # 0 => coefficient = FDiv(num, den)
    /\ (den = 0 /\ num = 0) => coefficient = 1000
    /\ (den = 0 /\ num # 0) => coefficient = 0

\* C11: zero-guard for alpha, beta, gamma.  For every calendar month m,
\* alpha[m] is ET_sum/PET_sum when PET_sum != 0, 1.0 when PET_sum and ET_sum
\* are both 0 and 0.0 when PET_sum is 0 and ET_sum is not; beta[m] follows
\* the same rule with (R_sum, PR_sum) and gamma[m] with (RO_sum, SP_sum).
C11_ZeroGuardAlphaBetaGamma ==
    \A i \in ComputedMonths :
        /\ GuardWithOne(caf.sums.ET[i], caf.sums.PET[i], caf.alpha[i])
        /\ GuardWithOne(caf.sums.R[i], caf.sums.PR[i], caf.beta[i])
        /\ GuardWithOne(caf.sums.RO[i], caf.sums.SP[i], caf.gamma[i])

\* all twelve months are computed and the three cases of the guard occurred:
\* a ratio, both sums 0, and a zero divisor under a nonzero sum
C11_Witness ==
    /\ caf.pc = "done"
    /\ \E i \in CalendarMonths : caf.sums.PET[i] # 0 /\ caf.alpha[i] = 625
    /\ \E i \in CalendarMonths :
         caf.sums.PET[i] = 0 /\ caf.sums.ET[i] = 0 /\ caf.alpha[i] = 1000
    /\ \E i \in CalendarMonths :
         caf.sums.SP[i] = 0 /\ caf.sums.RO[i] # 0 /\ caf.gamma[i] = 0

\* C12: zero-guard for delta.  For every calendar month m, delta[m] is
\* L_sum/PL_sum when PL_sum != 0 and 0.0 whenever PL_sum is 0, whatever L_sum
\* is: the guard never sets delta to 1.0.
C12_ZeroGuardDelta ==
    \A i \in ComputedMonths :
        /\ caf.sums.PL[i] # 0 => caf.delta[i] = FDiv(caf.sums.L[i], caf.sums.PL[i])
        /\ caf.sums.PL[i] = 0 => caf.delta[i] = 0

\* delta was computed for a month with PL_sum = 0 and L_sum = 0, for a month
\* with PL_sum = 0 and L_sum # 0, and for a month with PL_sum # 0
C12_Witness ==
    /\ caf.pc = "done"
    /\ \E i \in CalendarMonths :
         caf.sums.PL[i] = 0 /\ caf.sums.L[i] = 0 /\ caf.delta[i] = 0
    /\ \E i \in CalendarMonths :
         caf.sums.PL[i] = 0 /\ caf.sums.L[i] # 0 /\ caf.delta[i] = 0
    /\ \E i \in CalendarMonths : caf.sums.PL[i] # 0 /\ caf.delta[i] = 600

\* the rows the windowed-slice path selects
WindowedSliceRows(c) ==
    SliceRows(CafYears, c.calibration_start_year - c.data_start_year,
              (c.calibration_end_year - c.data_start_year) + 1)

\* the rows the full-series path selects
FullSeriesRows == DataYears

\* the calibration window is the full data year range
WindowIsFullRange ==
    /\ caf.calibration_start_year = caf.data_start_year
    /\ caf.calibration_end_year = (caf.data_start_year + CafYears) - 1

\* the five coefficients of calendar month i from the sums of the arrays
\* over a set of rows
CoefficientsOf(arrays, rows, i) ==
    [alpha |-> CoefficientRatio(NanSum(arrays.ET, rows, i), NanSum(arrays.PET, rows, i)),
     beta |-> CoefficientRatio(NanSum(arrays.R, rows, i), NanSum(arrays.PR, rows, i)),
     gamma |-> CoefficientRatio(NanSum(arrays.RO, rows, i), NanSum(arrays.SP, rows, i)),
     delta |-> DeltaRatio(NanSum(arrays.L, rows, i), NanSum(arrays.PL, rows, i)),
     t_ratio |-> FDiv(FAdd(FAdd(NanSum(arrays.PET, rows, i), NanSum(arrays.R, rows, i)),
                           NanSum(arrays.RO, rows, i)),
                      FAdd(NanSum(arrays.P, rows, i), NanSum(arrays.L, rows, i)))]

\* the five coefficients of calendar month i computed from the sums over rows
CoefficientsOver(rows, i) == CoefficientsOf(caf.arrays, rows, i)

\* the five coefficients the function has computed for calendar month i
Computed(i) ==
    [alpha |-> caf.alpha[i], beta |-> caf.beta[i], gamma |-> caf.gamma[i],
     delta |-> caf.delta[i], t_ratio |-> caf.t_ratio[i]]

\* C13: path agreement.  When the calibration window equals the full data
\* year range, the rows calibration_start_year_index ..
\* calibration_end_year_index of the windowed-slice path are the rows of the
\* full-series path, and alpha, beta, gamma, delta and t_ratio are the same
\* by either path.
C13_PathAgreement ==
    WindowIsFullRange =>
        /\ WindowedSliceRows(caf) = FullSeriesRows
        /\ caf.pc # "sums" => caf.rows = WindowedSliceRows(caf)
        /\ \A i \in ComputedMonths :
             /\ Computed(i) = CoefficientsOver(WindowedSliceRows(caf), i)
             /\ Computed(i) = CoefficientsOver(FullSeriesRows, i)

\* the coefficients of a full-range window are computed, over years that
\* differ and with not-available months in the last year
C13_Witness ==
    /\ caf.pc = "done"
    /\ WindowIsFullRange
    /\ caf.rows = DataYears
    /\ caf.arrays.P[0][0] # caf.arrays.P[1][0]
    /\ caf.arrays.P[CafYears - 1][MonthsPerYear - 1] = NaN

\* the ratio of moisture demand to moisture supply from the sums
DemandOverSupply(i) ==
    FDiv(FAdd(FAdd(caf.sums.PET[i], caf.sums.R[i]), caf.sums.RO[i]),
         FAdd(caf.sums.P[i], caf.sums.L[i]))

\* C31: t_ratio is defined for every calendar month.  t_ratio[m] is
\* (PET_sum + R_sum + RO_sum) / (P_sum + L_sum), and for every calibration
\* window inside the data's year range, also with a calendar month of zero
\* precipitation and zero loss in every calibration year, the value is a
\* finite number.
C31_TRatioFinite ==
    WindowInside =>
        \A i \in ComputedMonths :
            /\ caf.t_ratio[i] = DemandOverSupply(i)
            /\ IsNum(caf.t_ratio[i])

-----------------------------------------------------------------------------
(* pdsi_from_climatology: _cafec_coefficients, _climatic_characteristic and *)
(* _zindex in the order the function calls them, on the arrays the water    *)
(* balance returns.  _climatic_characteristic is decorated with numba.jit:  *)
(* compiled, a division by 0 raises ZeroDivisionError and an index beyond   *)
(* the array is read unchecked; run by the interpreter, the division is     *)
(* numpy's and the index raises IndexError.  Both are modelled, the choice  *)
(* is made with the input.                                                  *)

\* the layouts of the input: "mixed" has the months of BaseValue, "regular"
\* has every month positive, "balanced" has every month positive with
\* P = ET + R + RO - L
Layouts == {"mixed", "regular", "balanced"}

BalancedValue(series) ==
    LET balanced == [P |-> 3125, PET |-> 4000, ET |-> 2500, PR |-> 1500,
                     R |-> 750, RO |-> 500, PRO |-> 4000, L |-> 625,
                     PL |-> 1250, SP |-> 4000]
    IN  balanced[series]

LayoutValue(layout, series, i) ==
    IF layout = "mixed" THEN BaseValue(series, i)
    ELSE IF layout = "regular" THEN BaseValue(series, 0)
    ELSE BalancedValue(series)

ClimArrays(factor, first_padded, layout) ==
    [series \in CafSeries |->
        [y \in DataYears |->
            [i \in CalendarMonths |->
                IF y = CafYears - 1 /\ i >= first_padded
                THEN NaN
                ELSE factor[y] * LayoutValue(layout, series, i)]]]

\* math.log10 of a positive number, to the model's precision: the decade of
\* the argument and a linear interpolation of the mantissa between the
\* entries of a table (within 0.006 of the logarithm)
Pow10(d) == CASE d = 0 -> 1 [] d = 1 -> 10 [] d = 2 -> 100 [] d = 3 -> 1000
              [] d = 4 -> 10000 [] d = 5 -> 100000 [] d = 6 -> 1000000
              [] d = 7 -> 10000000 [] d = 8 -> 100000000 [] OTHER -> 1000000000

Decade(x) == CHOOSE d \in 0 .. 8 : Pow10(d) <= x /\ x < Pow10(d + 1)

Mantissa(x) ==
    IF Decade(x) >= 3 THEN x \div Pow10(Decade(x) - 3)
    ELSE x * Pow10(3 - Decade(x))

LogTable == << <<1000, 0>>, <<1250, 97>>, <<1500, 176>>, <<2000, 301>>,
               <<2500, 398>>, <<3000, 477>>, <<4000, 602>>, <<5000, 699>>,
               <<6000, 778>>, <<8000, 903>>, <<10000, 1000>> >>

LogMantissa(y) ==
    LET k == CHOOSE n \in 1 .. (Len(LogTable) - 1) :
                 LogTable[n][1] <= y /\ y < LogTable[n + 1][1]
    IN  LogTable[k][2]
        + RDiv((y - LogTable[k][1]) * (LogTable[k + 1][2] - LogTable[k][2]),
               LogTable[k + 1][1] - LogTable[k][1])

\* math.log10 raises ValueError for an argument that is not positive
Log10Raises(x) == x # NaN /\ (x = NInf \/ x <= 0)

log10(x) ==
    IF x = NaN THEN NaN
    ELSE IF x = PInf THEN PInf
    ELSE ((Decade(x) - 3) * Scale) + LogMantissa(Mantissa(x))

\* what an unchecked read behind the arrays may add to SABSD
UncheckedValues == {0, 1000, NaN}

\* array[j] of an array of n rows: a negative j counts from the end, a j
\* outside -n .. n-1 raises IndexError
IndexRaises(n, jj) == jj >= n \/ jj < 0 - n
RowOf(n, jj) == IF jj < 0 THEN jj + n ELSE jj

\* _climatic_characteristic: PHAT and the absolute departure of a month
PHAT(c, jj, mm) ==
    FSub(FAdd(FAdd(FMul(c.alpha[mm], c.arrays.PET[jj][mm]),
                   FMul(c.beta[mm], c.arrays.PR[jj][mm])),
              FMul(c.gamma[mm], c.arrays.SP[jj][mm])),
         FMul(c.delta[mm], c.arrays.PL[jj][mm]))

AbsD(c, jj, mm) == FAbs(FSub(c.arrays.P[jj][mm], PHAT(c, jj, mm)))

number_calibration_years(c) == (c.calibration_end_year - c.calibration_start_year) + 1

DBAR(c, mm) == FDiv(c.SABSD[mm], number_calibration_years(c) * Scale)

LogArgument(c, mm) == FDiv(FAdd(c.t_ratio[mm], 2800), DBAR(c, mm))

AKHAT(c, mm) == FAdd(FMul(1500, log10(LogArgument(c, mm))), 500)

RECURSIVE SWTD(_, _)
SWTD(c, n) ==
    IF n = 0 THEN 0
    ELSE FAdd(SWTD(c, n - 1), FMul(DBAR(c, n - 1), AKHAT(c, n - 1)))

AK(c, mm) == FDiv(FMul(17670, AKHAT(c, mm)), SWTD(c, MonthsPerYear))

\* (mutant of _zindex: gamma and delta change places)
_zindex_Swapped(alpha, beta, gamma, delta, P, PE, PR, PRO, PL, K) ==
    FMul(K, FSub(P, FSub(FAdd(FAdd(FMul(alpha, PE), FMul(beta, PR)),
                              FMul(delta, PRO)),
                         FMul(gamma, PL))))

\* _zindex for one month: P_hat, the departure d and Z
_zindex(alpha, beta, gamma, delta, P, PE, PR, PRO, PL, K) ==
    FMul(K, FSub(P, FSub(FAdd(FAdd(FMul(alpha, PE), FMul(beta, PR)),
                              FMul(gamma, PRO)),
                         FMul(delta, PL))))

NoYears == [y \in DataYears |-> NoCoefficients]

ClimInit ==
    /\ PdsiIdle
    /\ cs = "idle"
    /\ wb = "idle"
    /\ caf = "idle"
    /\ runs = "idle"
    /\ rs = "idle"
    /\ \E factor \in [DataYears -> YearFactors], first_padded \in {6, MonthsPerYear},
          layout \in Layouts, jit \in BOOLEAN,
          cal_start \in (data_start_year - 1) .. (data_start_year + CafYears - 1) :
         \E cal_end \in cal_start .. (data_start_year + CafYears) :
           clim = [pc |-> "cafec", jit |-> jit, arrays |-> ClimArrays(factor, first_padded, layout),
                   data_start_year |-> data_start_year,
                   calibration_start_year |-> cal_start,
                   calibration_end_year |-> cal_end,
                   alpha |-> NoCoefficients, beta |-> NoCoefficients,
                   gamma |-> NoCoefficients, delta |-> NoCoefficients,
                   t_ratio |-> NoCoefficients,
                   j |-> 0, SABSD |-> [i \in CalendarMonths |-> 0],
                   DBAR |-> NoCoefficients, K |-> NoCoefficients,
                   Z |-> NoYears, error |-> "none"]

ClimFrame == UNCHANGED <<pdsiVars, cs, wb, caf, runs, rs>>

\* the call of _cafec_coefficients
ClimCafec ==
    /\ clim.pc = "cafec"
    /\ clim' = [clim EXCEPT
                  !.alpha = [i \in CalendarMonths |->
                               CoefficientsOf(clim.arrays, CalibrationRows(clim), i).alpha],
                  !.beta = [i \in CalendarMonths |->
                              CoefficientsOf(clim.arrays, CalibrationRows(clim), i).beta],
                  !.gamma = [i \in CalendarMonths |->
                               CoefficientsOf(clim.arrays, CalibrationRows(clim), i).gamma],
                  !.delta = [i \in CalendarMonths |->
                               CoefficientsOf(clim.arrays, CalibrationRows(clim), i).delta],
                  !.t_ratio = [i \in CalendarMonths |->
                                 CoefficientsOf(clim.arrays, CalibrationRows(clim), i).t_ratio],
                  !.j = clim.calibration_start_year - clim.data_start_year,
                  !.pc = "sabsd"]
    /\ ClimFrame

LastCalibrationIndex == clim.calibration_end_year - clim.data_start_year

\* _climatic_characteristic: one calibration year of the loop over SABSD
ClimDeparture ==
    /\ clim.pc = "sabsd"
    /\ clim.j <= LastCalibrationIndex
    /\ ~IndexRaises(CafYears, clim.j)
    /\ clim' = [clim EXCEPT
                  !.SABSD = [i \in CalendarMonths |->
                               FAdd(clim.SABSD[i], AbsD(clim, RowOf(CafYears, clim.j), i))],
                  !.j = clim.j + 1]
    /\ ClimFrame

\* _climatic_characteristic: a calibration year that is no row of the
\* arrays, the function run by the interpreter
ClimIndexError ==
    /\ clim.pc = "sabsd"
    /\ ~clim.jit
    /\ clim.j <= LastCalibrationIndex
    /\ IndexRaises(CafYears, clim.j)
    /\ clim' = [clim EXCEPT !.pc = "error", !.error = "IndexError"]
    /\ ClimFrame

\* _climatic_characteristic: a calibration year that is no row of the
\* arrays, the function compiled: the read is not checked and gives whatever
\* lies behind the arrays
ClimUncheckedRead ==
    /\ clim.pc = "sabsd"
    /\ clim.jit
    /\ clim.j <= LastCalibrationIndex
    /\ IndexRaises(CafYears, clim.j)
    /\ \E absD \in UncheckedValues :
         clim' = [clim EXCEPT
                    !.SABSD = [i \in CalendarMonths |-> FAdd(clim.SABSD[i], absD)],
                    !.j = clim.j + 1]
    /\ ClimFrame

\* a division of the compiled function has a divisor 0
CompiledDivisionRaises(c) ==
    \/ \E i \in CalendarMonths : DBAR(c, i) = 0
    \/ SWTD(c, MonthsPerYear) = 0

\* _climatic_characteristic, the function compiled: a division by 0 raises
\* ZeroDivisionError
ClimZeroDivision ==
    /\ clim.pc = "sabsd"
    /\ clim.jit
    /\ clim.j > LastCalibrationIndex
    /\ CompiledDivisionRaises(clim)
    /\ clim' = [clim EXCEPT
                  !.DBAR = [i \in CalendarMonths |-> DBAR(clim, i)],
                  !.pc = "error", !.error = "ZeroDivisionError"]
    /\ ClimFrame

\* _climatic_characteristic: AKHAT, SWTD and the returned AK; math.log10
\* raises ValueError for an argument that is not positive
ClimWeights ==
    /\ clim.pc = "sabsd"
    /\ clim.j > LastCalibrationIndex
    /\ clim.jit => ~CompiledDivisionRaises(clim)
    /\ IF \E i \in CalendarMonths : Log10Raises(LogArgument(clim, i))
       THEN clim' = [clim EXCEPT
                       !.DBAR = [i \in CalendarMonths |-> DBAR(clim, i)],
                       !.pc = "error", !.error = "ValueError"]
       ELSE clim' = [clim EXCEPT
                       !.DBAR = [i \in CalendarMonths |-> DBAR(clim, i)],
                       !.K = [i \in CalendarMonths |-> AK(clim, i)],
                       !.j = 0,
                       !.pc = "zindex"]
    /\ ClimFrame

\* the call of _zindex, spdat in the place of PRO: one year of its loop
ClimZindex ==
    /\ clim.pc = "zindex"
    /\ clim' = [clim EXCEPT
                  !.Z[clim.j] = [i \in CalendarMonths |->
                      _zindex(clim.alpha[i], clim.beta[i], clim.gamma[i], clim.delta[i],
                              clim.arrays.P[clim.j][i], clim.arrays.PET[clim.j][i],
                              clim.arrays.PR[clim.j][i], clim.arrays.SP[clim.j][i],
                              clim.arrays.PL[clim.j][i], clim.K[i])],
                  !.j = clim.j + 1,
                  !.pc = IF clim.j = CafYears - 1 THEN "done" ELSE "zindex"]
    /\ ClimFrame

ClimNext ==
    \/ ClimCafec
    \/ ClimDeparture
    \/ ClimIndexError
    \/ ClimUncheckedRead
    \/ ClimZeroDivision
    \/ ClimWeights
    \/ ClimZindex

ClimSpec == ClimInit /\ [][ClimNext]_vars

\* _climatic_characteristic has returned a K array
KReturned == clim.pc \in {"zindex", "done"}

\* C14: degenerate calibration is an error.  If for some calendar month the
\* mean absolute departure over the calibration years is 0 (DBAR == 0),
\* _climatic_characteristic ends in an error and returns no K array: it never
\* returns a K with entries that are not-a-number or infinite.
C14_DegenerateCalibrationIsError ==
    KReturned => \A i \in CalendarMonths : clim.DBAR[i] # 0

\* the calibration window lies inside the years of the data
ClimWindowInside ==
    /\ clim.data_start_year <= clim.calibration_start_year
    /\ clim.calibration_end_year <= (clim.data_start_year + CafYears) - 1

\* C15: calibration window validation.  When calibration_start_year is
\* before the first data year or calibration_end_year is after the last data
\* year, the pipeline of _cafec_coefficients and _climatic_characteristic
\* ends in an error instead of computing from a truncated or empty selection
\* of years.
C15_CalibrationWindowValidated ==
    ~ClimWindowInside => ~KReturned

\* the years whose Z the loop of _zindex has set
ZYears == {y \in DataYears : clim.pc = "done" \/ (clim.pc = "zindex" /\ y < clim.j)}

-----------------------------------------------------------------------------
(* Two invocations of pdsi_from_climatology side by side.  Each invocation  *)
(* has the locals of its own calls; the one thing of the module they both   *)
(* write is the filter list of the warnings module, which the               *)
(* catch_warnings of _cafec_coefficients replaces and puts back.  The steps *)
(* of an invocation are: entering the with block, the sums and              *)
(* coefficients, leaving the block, the two loops of                        *)
(* _climatic_characteristic, _zindex, the set-up of _pdsi, one step per     *)
(* month, and the terminal loop.                                            *)

Invocations == {1, 2}

RunMonths == 0 .. ((CafYears * MonthsPerYear) - 1)

\* a year without precipitation, or none for y = -1
WithDryYear(arrays, y) ==
    IF y \in DataYears
    THEN [arrays EXCEPT !.P[y] = [i \in CalendarMonths |->
                                    IF arrays.P[y][i] = NaN THEN NaN ELSE 0]]
    ELSE arrays

\* the inputs of an invocation: a location with a dry second year calibrated
\* on the whole series, a location with an incomplete last year calibrated
\* without it, and a location with months without any water; the values of
\* one year of each are doubled
RunInputs ==
    {[doubled |-> CafYears - 1, first_padded |-> 12, layout |-> "regular",
      dry |-> 1, calibration_end_year |-> (data_start_year + CafYears) - 1, jit |-> TRUE],
     [doubled |-> 0, first_padded |-> 6, layout |-> "regular",
      dry |-> 0 - 1, calibration_end_year |-> (data_start_year + CafYears) - 2, jit |-> TRUE],
     [doubled |-> 1, first_padded |-> 12, layout |-> "mixed",
      dry |-> 0 - 1, calibration_end_year |-> (data_start_year + CafYears) - 1, jit |-> TRUE]}

\* the frame of an invocation before its first step
RunStart(in) ==
    [pc |-> "enter", jit |-> in.jit,
     arrays |-> WithDryYear(ClimArrays([y \in DataYears |->
                                          IF y = in.doubled THEN 2 ELSE 1],
                                       in.first_padded, in.layout), in.dry),
     data_start_year |-> data_start_year,
     calibration_start_year |-> data_start_year,
     calibration_end_year |-> in.calibration_end_year,
     saved |-> "none",
     alpha |-> NoCoefficients, beta |-> NoCoefficients,
     gamma |-> NoCoefficients, delta |-> NoCoefficients,
     t_ratio |-> NoCoefficients,
     SABSD |-> [i \in CalendarMonths |-> 0], K |-> NoCoefficients, Z |-> NoYears,
     j |-> 0, m |-> 0, X1 |-> 0, X2 |-> 0, X3 |-> 0, V |-> 0, prob_ended |-> 0,
     K8 |-> 0, df |-> <<>>, error |-> "none"]

\* (mutant of WarningRaises: a RuntimeWarning that is not ignored is raised)
WarningRaises_UnlessIgnored(filters) == filters # "ignore"

\* a RuntimeWarning is raised as an exception only under an "error" filter
WarningRaises(filters) == filters = "error"

\* a division of the coefficient loop that numpy warns about: the divisor of
\* t_ratio is 0
DivisionWarns(st) ==
    \E i \in CalendarMonths :
        FAdd(NanSum(st.arrays.P, CalibrationRows(st), i),
             NanSum(st.arrays.L, CalibrationRows(st), i)) = 0

\* with warnings.catch_warnings(): the filters are saved and replaced
EnterBlock(st, filters) == [st EXCEPT !.saved = filters, !.pc = "cafec"]

\* the sums and the loop over the calendar months, inside the block
CoefficientLoop(st, filters) ==
    IF DivisionWarns(st) /\ WarningRaises(filters)
    THEN [st EXCEPT !.pc = "error", !.error = "RuntimeWarning"]
    ELSE [st EXCEPT
            !.alpha = [i \in CalendarMonths |->
                         CoefficientsOf(st.arrays, CalibrationRows(st), i).alpha],
            !.beta = [i \in CalendarMonths |->
                        CoefficientsOf(st.arrays, CalibrationRows(st), i).beta],
            !.gamma = [i \in CalendarMonths |->
                         CoefficientsOf(st.arrays, CalibrationRows(st), i).gamma],
            !.delta = [i \in CalendarMonths |->
                         CoefficientsOf(st.arrays, CalibrationRows(st), i).delta],
            !.t_ratio = [i \in CalendarMonths |->
                           CoefficientsOf(st.arrays, CalibrationRows(st), i).t_ratio],
            !.pc = "exit"]

\* the sum of the absolute departures of calendar month i over the
\* calibration years from jj on
RECURSIVE SumAbsD(_, _, _, _)
SumAbsD(st, i, jj, acc) ==
    IF jj > st.calibration_end_year - st.data_start_year THEN acc
    ELSE SumAbsD(st, i, jj + 1, FAdd(acc, AbsD(st, RowOf(CafYears, jj), i)))

WithSABSD(st) ==
    [st EXCEPT !.SABSD = [i \in CalendarMonths |->
                            SumAbsD(st, i, st.calibration_start_year - st.data_start_year, 0)],
               !.pc = "weights"]

\* AKHAT, SWTD and AK from the sums of the departures
WeightsOf(st) ==
    IF st.jit /\ CompiledDivisionRaises(st)
    THEN [st EXCEPT !.pc = "error", !.error = "ZeroDivisionError"]
    ELSE IF \E i \in CalendarMonths : Log10Raises(LogArgument(st, i))
    THEN [st EXCEPT !.pc = "error", !.error = "ValueError"]
    ELSE [st EXCEPT !.K = [i \in CalendarMonths |-> AK(st, i)], !.pc = "zindex"]

\* the call of _zindex
WithZ(st) ==
    [st EXCEPT
       !.Z = [y \in DataYears |-> [i \in CalendarMonths |->
                _zindex(st.alpha[i], st.beta[i], st.gamma[i], st.delta[i],
                        st.arrays.P[y][i], st.arrays.PET[y][i], st.arrays.PR[y][i],
                        st.arrays.SP[y][i], st.arrays.PL[y][i], st.K[i])]],
       !.pc = "pdsi"]

\* _pdsi: its locals and its DataFrame
WithLocals(st) ==
    [st EXCEPT
       !.j = 0, !.m = 0, !.X1 = 0, !.X2 = 0, !.X3 = 0, !.V = 0,
       !.prob_ended = 0, !.K8 = 0,
       !.df = [c \in FloatColumns \cup IndexColumns |->
                 [n \in RunMonths |->
                    IF c = "Z" THEN st.Z[n \div MonthsPerYear][n % MonthsPerYear]
                    ELSE IF c \in IndexColumns THEN 0 ELSE NaN]],
       !.pc = "month"]

\* _pdsi: the body of the loop for month (j, m), on the DataFrame d that has
\* the month's index_j and index_m
MonthBody(st, d, i) ==
    IF FEq(st.prob_ended, 100000) \/ FEq(st.prob_ended, 0)
    THEN IF FLe(FAbs(st.X3), 500)
         THEN _compute_X(Put(Put(d, "PPR", i, 0), "PX3", i, 0),
                         st.X1, st.X2, st.j, st.m, st.K8, 0)
         ELSE IF FGt(st.X3, 500)
         THEN (IF FGe(d.Z[i], 150)
               THEN _between_0s(d, st.K8, st.X3, st.j, st.m)
               ELSE _wet_spell_abatement(d, st.V, st.K8, st.prob_ended, st.j, st.m,
                                         st.X1, st.X2, st.X3))
         ELSE IF FLt(st.X3, 0 - 500)
         THEN (IF FLt(d.Z[i], 0 - 150)
               THEN _between_0s(d, st.K8, st.X3, st.j, st.m)
               ELSE _dry_spell_abatement(d, st.K8, st.j, st.m, st.V, st.X1, st.X2,
                                         st.X3, st.prob_ended))
         ELSE Carry(d, st.X1, st.X2, st.X3, st.V, st.prob_ended, st.K8)
    ELSE IF FGt(st.X3, 0)
         THEN _wet_spell_abatement(d, st.V, st.K8, st.prob_ended, st.j, st.m,
                                   st.X1, st.X2, st.X3)
         ELSE _dry_spell_abatement(d, st.K8, st.j, st.m, st.V, st.X1, st.X2,
                                   st.X3, st.prob_ended)

\* the locals after the handler of month (j, m) returned r
AfterMonth(st, r) ==
    [st EXCEPT
       !.df = r.df, !.X1 = r.X1, !.X2 = r.X2, !.X3 = r.X3, !.V = r.V,
       !.prob_ended = r.prob_ended, !.K8 = r.K8,
       !.m = IF st.m = MonthsPerYear - 1 THEN 0 ELSE st.m + 1,
       !.j = IF st.m = MonthsPerYear - 1 THEN st.j + 1 ELSE st.j,
       !.pc = IF st.j = CafYears - 1 /\ st.m = MonthsPerYear - 1
              THEN "flush" ELSE "month"]

MonthStep(st) ==
    AfterMonth(st, MonthBody(st, Put(Put(st.df, "index_j", st.K8, st.j),
                                     "index_m", st.K8, st.m),
                             SeriesIndex(st.j, st.m)))

\* the frame of an invocation after its next step, under the filters it finds
FrameAfter(st, filters) ==
    CASE st.pc = "enter" -> EnterBlock(st, filters)
      [] st.pc = "cafec" -> CoefficientLoop(st, filters)
      [] st.pc = "exit" -> [st EXCEPT !.saved = "none", !.pc = "climatic"]
      [] st.pc = "climatic" -> WithSABSD(st)
      [] st.pc = "weights" -> WeightsOf(st)
      [] st.pc = "zindex" -> WithZ(st)
      [] st.pc = "pdsi" -> WithLocals(st)
      [] st.pc = "month" -> MonthStep(st)
      [] st.pc = "flush" -> [st EXCEPT !.df = ClearRemaining(st.df, 0, st.K8),
                                       !.pc = "done"]

\* the filters of the warnings module after that step: simplefilter("ignore")
\* at the entry of the block, the saved filters at its exit
FiltersAfter(st, filters) ==
    IF st.pc = "enter" THEN "ignore"
    ELSE IF st.pc = "exit" THEN st.saved
    ELSE IF st.pc = "cafec" /\ DivisionWarns(st) /\ WarningRaises(filters) THEN st.saved
    ELSE filters

Running(st) == st.pc \notin {"done", "error"}

\* the frame of invocation k: the locals of its calls
Frame(r, k) == r.inv[k]

RunsInit ==
    /\ PdsiIdle
    /\ cs = "idle"
    /\ wb = "idle"
    /\ caf = "idle"
    /\ clim = "idle"
    /\ rs = "idle"
    /\ \E in \in [Invocations -> RunInputs] :
         /\ in[1] # in[2]
         /\ runs = [filters |-> "default",
                    inv |-> [k \in Invocations |-> RunStart(in[k])],
                    alone |-> [k \in Invocations |->
                                 [frame |-> RunStart(in[k]), filters |-> "default"]]]

RunsFrame == UNCHANGED <<pdsiVars, cs, wb, caf, clim, rs>>

\* runs after one step of invocation k; alone[k] makes the same step in a
\* process of its own, where no other invocation touches the filters
Stepped(k) ==
    [runs EXCEPT
       !.inv[k] = FrameAfter(Frame(runs, k), runs.filters),
       !.filters = FiltersAfter(Frame(runs, k), runs.filters),
       !.alone[k] = [frame |-> FrameAfter(runs.alone[k].frame, runs.alone[k].filters),
                     filters |-> FiltersAfter(runs.alone[k].frame,
                                              runs.alone[k].filters)]]

\* the first invocation makes a step
FirstRuns ==
    /\ Running(Frame(runs, 1))
    /\ runs' = Stepped(1)
    /\ RunsFrame

\* the second invocation makes a step
SecondRuns ==
    /\ Running(Frame(runs, 2))
    /\ runs' = Stepped(2)
    /\ RunsFrame

RunsNext == FirstRuns \/ SecondRuns

RunsSpec == RunsInit /\ [][RunsNext]_vars

\* what an invocation returns: PDSI, PHDI, WPLM and Z, or the error it ends in
Returns(st) ==
    IF st.pc = "done"
    THEN [error |-> "none", PDSI |-> st.df.PDSI, PHDI |-> st.df.PHDI,
          WPLM |-> st.df.WPLM, Z |-> st.Z]
    ELSE [error |-> st.error, PDSI |-> <<>>, PHDI |-> <<>>, WPLM |-> <<>>, Z |-> <<>>]

-----------------------------------------------------------------------------
(* utils.reshape_to_years_months, the collaborator every stage calls on its *)
(* series.  An array is its shape and its cells in row-major order.         *)

\* the longest 1-D series handed to the function, in months
RsMaxMonths == 30

\* the first value of a series; the cell at position k holds first + k
RsFirstValues == {1, 101}

RsShapes ==
    {<<n>> : n \in 1 .. RsMaxMonths}
    \cup {<<r, c>> : r \in 1 .. 3, c \in {9, 11, 12, 13}}
    \cup {<<3, 3, 3>>, <<2, 1, 12>>}

RECURSIVE Size(_)
Size(shape) == IF shape = <<>> THEN 1 ELSE Head(shape) * Size(Tail(shape))

ArrayOf(shape, first) ==
    [shape |-> shape, data |-> [k \in 1 .. Size(shape) |-> (first + k) - 1]]

NoGrid == [shape |-> <<>>, data |-> <<>>]

\* the number of years that hold n months
YearsOf(n) == (n + (MonthsPerYear - 1)) \div MonthsPerYear

\* (mutant of PadToYears: the months of an incomplete last year are dropped)
PadToYears_Truncating(data) ==
    [k \in 1 .. (MonthsPerYear * (Len(data) \div MonthsPerYear)) |-> data[k]]

\* the months followed by not-available months up to the end of the last year
PadToYears(data) ==
    [k \in 1 .. (MonthsPerYear * YearsOf(Len(data))) |->
        IF k <= Len(data) THEN data[k] ELSE NaN]

\* (mutant of AlreadyYearsMonths: no 2-D array is taken as it is)
AlreadyYearsMonths_Never(shape) == Len(shape) = 2 /\ shape[2] = MonthsPerYear /\ shape[1] < 0

\* the array has the shape (years, 12)
AlreadyYearsMonths(shape) == Len(shape) = 2 /\ shape[2] = MonthsPerYear

\* (mutant of reshape_to_years_months: an array of any other shape is
\* flattened and cut into years)
reshape_to_years_months_Flattening(values) ==
    IF AlreadyYearsMonths(values.shape)
    THEN [error |-> "none", grid |-> values]
    ELSE [error |-> "none",
          grid |-> [shape |-> <<YearsOf(Len(values.data)), MonthsPerYear>>,
                    data |-> PadToYears(values.data)]]

\* the outcome of reshape_to_years_months(values): the grid or ValueError
reshape_to_years_months(values) ==
    IF Len(values.shape) = 1
    THEN [error |-> "none",
          grid |-> [shape |-> <<YearsOf(Len(values.data)), MonthsPerYear>>,
                    data |-> PadToYears(values.data)]]
    ELSE IF AlreadyYearsMonths(values.shape)
         THEN [error |-> "none", grid |-> values]
         ELSE [error |-> "ValueError", grid |-> NoGrid]

NoOutcome == [error |-> "none", grid |-> NoGrid]

RsInit ==
    /\ PdsiIdle
    /\ cs = "idle"
    /\ wb = "idle"
    /\ caf = "idle"
    /\ clim = "idle"
    /\ runs = "idle"
    /\ \E shape \in RsShapes, first \in RsFirstValues :
         rs = [pc |-> "call", values |-> ArrayOf(shape, first),
               once |-> NoOutcome, twice |-> NoOutcome]

RsFrame == UNCHANGED <<pdsiVars, cs, wb, caf, clim, runs>>

\* the function applied to the input
RsCall ==
    /\ rs.pc = "call"
    /\ rs' = [rs EXCEPT !.once = reshape_to_years_months(rs.values),
                        !.pc = "once"]
    /\ RsFrame

\* the function applied to the grid it returned
RsCallAgain ==
    /\ rs.pc = "once"
    /\ rs.once.error = "none"
    /\ rs' = [rs EXCEPT !.twice = reshape_to_years_months(rs.once.grid),
                        !.pc = "twice"]
    /\ RsFrame

RsNext == RsCall \/ RsCallAgain

RsSpec == RsInit /\ [][RsNext]_vars

\* the function has been applied to a 1-D series
OneDimensional == rs.pc # "call" /\ Len(rs.values.shape) = 1

\* C18: reshape padding.  For a 1-D monthly series of length n the result is
\* a grid of ceil(n/12) rows of 12 whose first n cells, read row by row, are
\* the input values in order and whose remaining cells of the last row are
\* not-available: no input value is dropped.
C18_ReshapePadding ==
    OneDimensional =>
        LET n == Len(rs.values.data)
            grid == rs.once.grid
        IN  /\ rs.once.error = "none"
            /\ Len(grid.shape) = 2
            /\ grid.shape[2] = 12
            /\ (grid.shape[1] - 1) * 12 < n
            /\ n <= grid.shape[1] * 12
            /\ Len(grid.data) = grid.shape[1] * 12
            /\ \A k \in 1 .. Len(grid.data) :
                 grid.data[k] = IF k <= n THEN rs.values.data[k] ELSE NaN

\* the series of 30 months of the test has become a grid of 3 years with 6
\* not-available months
C18_Witness ==
    /\ OneDimensional
    /\ Len(rs.values.data) = 30
    /\ rs.once.grid.shape = <<3, 12>>
    /\ rs.once.grid.data[30] = rs.values.data[30]
    /\ rs.once.grid.data[31] = NaN

\* C19: reshape idempotence.  A grid that already has the shape (years, 12)
\* is returned unchanged, so applying the function twice gives the result of
\* applying it once.
C19_ReshapeIdempotence ==
    /\ (rs.pc # "call" /\ Len(rs.values.shape) = 2 /\ rs.values.shape[2] = 12) =>
         (rs.once.error = "none" /\ rs.once.grid = rs.values)
    /\ rs.pc = "twice" => rs.twice = rs.once

\* the function has been applied twice, to a grid of 3 years and to a series
\* it had to pad
C19_Witness ==
    /\ rs.pc = "twice"
    /\ \/ rs.values.shape = <<3, 12>>
       \/ (rs.values.shape = <<30>> /\ rs.twice.grid.data[36] = NaN)
    /\ rs.twice.grid.shape = <<3, 12>>

\* the input is a 2-D array whose rows are not 12 long, or a 3-D array
InvalidShape ==
    \/ Len(rs.values.shape) = 2 /\ rs.values.shape[2] # 12
    \/ Len(rs.values.shape) = 3

\* C20: reshape shape error.  Given a 2-D array whose row length is not 12,
\* or an array of three dimensions, the function ends in ValueError and
\* returns no grid: it never truncates the data to fit.
C20_ReshapeShapeError ==
    (rs.pc # "call" /\ InvalidShape) =>
        (rs.once.error = "ValueError" /\ rs.once.grid = NoGrid /\ rs.pc = "once")

\* the function has ended in ValueError on the 3 x 9 array of the test
C20_Witness ==
    /\ rs.pc = "once"
    /\ rs.values.shape = <<3, 9>>
    /\ rs.once.error = "ValueError"

====
